---- MODULE Spec2Model ----
(***************************************************************************)
(* Cash-flow system, frontend core: the transaction form                   *)
(* (AddTransactionModal) and the report aggregator (Reports page).         *)
(*                                                                         *)
(* Amounts are JavaScript numbers, i.e. IEEE-754 doubles.  A double v is   *)
(* written here as the exact integer v * 2^59, split in three 24-bit       *)
(* limbs (hi, mid, lo) plus a sign.  Every double between 2^-7 and 2^13 is *)
(* an integer multiple of 2^-59, so sums and differences of such values    *)
(* are computed exactly and then rounded to 53 significant bits, round     *)
(* half to even, which is what the processor does.                         *)
(***************************************************************************)
EXTENDS Integers, Sequences, FiniteSets, TLC

\* ------------------------------------------------------------------------
\* Bounds of the model
\* ------------------------------------------------------------------------
MaxLines == 3
MaxRows == 3
MaxPending == 2
MaxCreates == 2
MaxInits == 2
MaxTxns == 3
MaxGenerations == 1
MaxLoads == 1
MaxSaves == 1
MaxInFlight == 2

\* ------------------------------------------------------------------------
\* JavaScript numbers
\* ------------------------------------------------------------------------
LimbBase == 2^24

Num(neg, hi, mid, lo) == [neg |-> neg, hi |-> hi, mid |-> mid, lo |-> lo]

Zero == Num(FALSE, 0, 0, 0)

IsZero(a) == a.hi = 0 /\ a.mid = 0 /\ a.lo = 0

MagLess(a, b) ==
    \/ a.hi < b.hi
    \/ a.hi = b.hi /\ a.mid < b.mid
    \/ a.hi = b.hi /\ a.mid = b.mid /\ a.lo < b.lo

MagAdd(a, b) ==
    LET lo == a.lo + b.lo
        mid == a.mid + b.mid + (lo \div LimbBase)
        hi == a.hi + b.hi + (mid \div LimbBase)
    IN  Num(FALSE, hi, mid % LimbBase, lo % LimbBase)

\* a - b for magnitudes with b <= a
MagSub(a, b) ==
    LET lo == a.lo - b.lo
        bl == IF lo < 0 THEN 1 ELSE 0
        mid == a.mid - b.mid - bl
        bm == IF mid < 0 THEN 1 ELSE 0
        hi == a.hi - b.hi - bm
    IN  Num(FALSE, hi, mid + bm * LimbBase, lo + bl * LimbBase)

\* number of significant bits of one limb
LimbBits(x) == CHOOSE b \in 0..25 : x < 2^b /\ (b = 0 \/ x >= 2^(b - 1))

MagBits(a) ==
    IF a.hi # 0 THEN 48 + LimbBits(a.hi)
    ELSE IF a.mid # 0 THEN 24 + LimbBits(a.mid)
    ELSE LimbBits(a.lo)

\* The magnitude rounded to 53 significant bits, ties to even.
RoundDouble(a) ==
    LET k == MagBits(a) - 53
    IN  IF k <= 0 THEN a
        ELSE LET unit == 2^k
                 rem == a.lo % unit
                 down == Num(FALSE, a.hi, a.mid, a.lo - rem)
                 odd == ((a.lo \div unit) % 2) = 1
                 up == rem * 2 > unit \/ (rem * 2 = unit /\ odd)
             IN  IF up THEN MagAdd(down, Num(FALSE, 0, 0, unit)) ELSE down

\* a + b of two doubles
FAdd(a, b) ==
    IF a.neg = b.neg
    THEN [RoundDouble(MagAdd(a, b)) EXCEPT !.neg = a.neg /\ ~(IsZero(a) /\ IsZero(b))]
    ELSE IF MagLess(a, b)
         THEN [RoundDouble(MagSub(b, a)) EXCEPT !.neg = b.neg]
         ELSE IF MagLess(b, a)
              THEN [RoundDouble(MagSub(a, b)) EXCEPT !.neg = a.neg]
              ELSE Zero

FNeg(a) == IF IsZero(a) THEN a ELSE [a EXCEPT !.neg = ~a.neg]

\* a - b of two doubles
FSub(a, b) == FAdd(a, FNeg(b))

\* Math.abs
FAbs(a) == [a EXCEPT !.neg = FALSE]

\* a < b
FLess(a, b) ==
    IF a.neg /\ ~b.neg THEN ~(IsZero(a) /\ IsZero(b))
    ELSE IF ~a.neg /\ b.neg THEN FALSE
    ELSE IF a.neg THEN MagLess(b, a)
    ELSE MagLess(a, b)

\* a > b
FGreater(a, b) == FLess(b, a)

\* a <= b
FLessEq(a, b) == ~FLess(b, a)

\* The double nearest to a decimal literal (the literals the model uses).
DoubleOf(s) ==
    CASE s = "0" -> Zero
      [] s = "0.01" -> Num(FALSE, 20, 8053063, 11408507)
      [] s = "0.02" -> Num(FALSE, 40, 16106127, 6039798)
      [] s = "0.1" -> Num(FALSE, 204, 13421772, 13421776)
      [] s = "0.2" -> Num(FALSE, 409, 10066329, 10066336)
      [] s = "0.3" -> Num(FALSE, 614, 6710886, 6710880)
      [] s = "5" -> Num(FALSE, 10240, 0, 0)
      [] s = "-5" -> Num(TRUE, 10240, 0, 0)
      [] s = "90" -> Num(FALSE, 184320, 0, 0)
      [] s = "100" -> Num(FALSE, 204800, 0, 0)
      [] s = "500" -> Num(FALSE, 1024000, 0, 0)

Literals == {"0", "0.01", "0.02", "0.1", "0.2", "0.3", "5", "-5", "90", "100", "500"}

\* parseFloat: a finite number, an infinity or NaN
ParseFloat(s) ==
    IF s \in Literals THEN [kind |-> "finite", val |-> DoubleOf(s)]
    ELSE IF s \in {"Infinity", "1e999"} THEN [kind |-> "infinite", val |-> Zero]
    ELSE [kind |-> "NaN", val |-> Zero]

toNumber(s) ==
    LET n == ParseFloat(s)
    IN  IF n.kind = "finite" THEN n.val ELSE Zero

\* ------------------------------------------------------------------------
\* Server data (the storage collaborator)
\* ------------------------------------------------------------------------
Account(id, name, owner) == [id |-> id, name |-> name, isOwnerAccount |-> owner]

AccountA == Account("a1", "A", TRUE)
AccountB == Account("b1", "B", FALSE)
AccountC == Account("c1", "C", TRUE)

\* what GET /accounts answers
ServerAccounts == <<AccountA, AccountB>>

Line(account, description, amount, type) ==
    [account |-> account, description |-> description, amount |-> amount, type |-> type]

\* The account of a stored line is `Account | string`: the value with its typeof.
JsString(s) == [typeof |-> "string", string |-> s]
JsObject(o) == [typeof |-> "object", object |-> o]

\* typeof detail.account === 'string' ? detail.account : detail.account.name
AccountNameOf(detail) ==
    IF detail.account.typeof = "string"
    THEN detail.account.string
    ELSE detail.account.object.name

Transaction(id, date, lines) == [id |-> id, date |-> date, details |-> lines]

RemoveAt(seq, i) == SubSeq(seq, 1, i - 1) \o SubSeq(seq, i + 1, Len(seq))

\* no transaction (editTransaction = null / undefined)
Null == Transaction(0, "", <<>>)

Today == "2024-01-05"
Dates == {"2024-01-05", "2024-01-06"}

\* the transaction of the rent example: A credit 500, B debit 500
RentTransaction ==
    Transaction(1, "2024-01-05",
        <<Line(JsString("A"), "rent", DoubleOf("500"), "credit"),
          Line(JsString("B"), "rent", DoubleOf("500"), "debit")>>)

\* ------------------------------------------------------------------------
\* Transaction form (AddTransactionModal)
\* ------------------------------------------------------------------------
VARIABLES
    open,             \* prop: the dialog is shown
    editTransaction,  \* prop: the transaction being edited, or Null
    date,             \* useState: the transaction date
    details,          \* useState: the rows, as of the last render
    pending,          \* setDetails calls queued by React, not rendered yet
    formAccounts,     \* useState: the accounts offered by the row select
    loading,          \* useState
    error,            \* useState: the lines of the error string, <<>> for ''
    inits,            \* init() calls awaiting loadAccounts
    inflight,         \* create requests awaiting the server's answer
    sent,             \* every create request issued so far
    stored            \* the server's transactions

formVars == <<open, editTransaction, date, details, pending, formAccounts,
              loading, error, inits, inflight, sent, stored>>

\* Reports page
VARIABLES
    accounts,         \* useState: the accounts loaded
    filters,          \* useState: selectedAccount, ownerAccountsOnly
    transactions,     \* useState: the transactions last fetched
    reports,          \* useState: the AccountReports shown
    summary,          \* useState
    reportsLoading,   \* useState: loading
    reportsError,     \* useState: error
    effects,          \* runs of the [accounts, filters] effect not started yet
    generations       \* generateReports calls awaiting loadTransactions

reportVars == <<accounts, filters, transactions, reports, summary, reportsLoading,
                reportsError, effects, generations>>

\* Accounts page, its AddAccountModal, Transactions page, Dashboard: one
\* variable for each component, a record of its useState values (and, for the
\* modal, its props)
VARIABLES
    accountModal,     \* open, editAccount, formData, accountTypes, loading, error
    accountsPage,     \* accounts, loading, deleteDialogOpen, selectedAccount, error, deleteLoading
    transactionsPage, \* transactions, loading, deleteDialogOpen, selectedTransaction, error, deleteLoading
    dashboard,        \* stats
    calls,            \* API calls of these components awaiting the server's answer
    serverAccounts    \* the server's accounts

pageVars == <<accountModal, accountsPage, transactionsPage, dashboard, calls, serverAccounts>>

Detail(serialNo, account, description, amountStr, type) ==
    [serialNo |-> serialNo, account |-> account, description |-> description,
     amountStr |-> amountStr, type |-> type]

BlankRow == Detail(1, "", "", "", "credit")

\* String.prototype.trim on the descriptions the model types
Trim(s) ==
    CASE s \in {"", " "} -> ""
      [] s = " x " -> "x"
      [] s = " y " -> "y"
      [] OTHER -> s

\* String(n) of a stored amount
StringOf(n) == CHOOSE s \in Literals : DoubleOf(s) = n

\* A message: the template literal and the values interpolated in it.
Message(template, args) == [template |-> template, args |-> args]

BalanceMessage == Message("Total debits must equal total credits", <<>>)

\* the three checks of one row; index is the forEach index, from 0
\* RowErrors with the description tested as typed, not trimmed
RowErrorsNoTrim(detail, index) ==
    (IF detail.account = ""
     THEN <<Message("Row ${index + 1}: Account is required", <<index + 1>>)>>
     ELSE <<>>)
    \o (IF detail.description = ""
        THEN <<Message("Row ${index + 1}: Description is required", <<index + 1>>)>>
        ELSE <<>>)
    \o (IF FLessEq(toNumber(detail.amountStr), Zero)
        THEN <<Message("Row ${index + 1}: Amount must be greater than 0", <<index + 1>>)>>
        ELSE <<>>)

\* the row's checks with an amount of zero let through
RowErrorsZeroAllowed(detail, index) ==
    (IF detail.account = ""
     THEN <<Message("Row ${index + 1}: Account is required", <<index + 1>>)>>
     ELSE <<>>)
    \o (IF Trim(detail.description) = ""
        THEN <<Message("Row ${index + 1}: Description is required", <<index + 1>>)>>
        ELSE <<>>)
    \o (IF FLess(toNumber(detail.amountStr), Zero)
        THEN <<Message("Row ${index + 1}: Amount must be greater than 0", <<index + 1>>)>>
        ELSE <<>>)

RowErrors(detail, index) ==
    (IF detail.account = ""
     THEN <<Message("Row ${index + 1}: Account is required", <<index + 1>>)>>
     ELSE <<>>)
    \o (IF Trim(detail.description) = ""
        THEN <<Message("Row ${index + 1}: Description is required", <<index + 1>>)>>
        ELSE <<>>)
    \o (IF FLessEq(toNumber(detail.amountStr), Zero)
        THEN <<Message("Row ${index + 1}: Amount must be greater than 0", <<index + 1>>)>>
        ELSE <<>>)

RECURSIVE AllRowErrors(_, _)
AllRowErrors(rows, n) ==
    IF n = 0 THEN <<>>
    ELSE AllRowErrors(rows, n - 1) \o RowErrors(rows[n], n - 1)

\* rows.filter(d => d.type === type).reduce((sum, d) => sum + toNumber(d.amountStr), 0)
RECURSIVE SumOfType(_, _, _)
SumOfType(rows, type, n) ==
    IF n = 0 THEN Zero
    ELSE IF rows[n].type = type
         THEN FAdd(SumOfType(rows, type, n - 1), toNumber(rows[n].amountStr))
         ELSE SumOfType(rows, type, n - 1)

getTotals(rows) ==
    [totalDebits |-> SumOfType(rows, "debit", Len(rows)),
     totalCredits |-> SumOfType(rows, "credit", Len(rows))]

Tolerance == DoubleOf("0.01")

\* Unbalanced without Math.abs
UnbalancedNoAbs(rows) ==
    FGreater(FSub(getTotals(rows).totalDebits, getTotals(rows).totalCredits), Tolerance)

Unbalanced(rows) ==
    FGreater(FAbs(FSub(getTotals(rows).totalDebits, getTotals(rows).totalCredits)),
             Tolerance)

\* the colour of the "Difference:" line below the rows
DifferenceColor(rows) ==
    LET diff == FAbs(FSub(getTotals(rows).totalCredits, getTotals(rows).totalDebits))
    IN  IF FLess(diff, Tolerance) THEN "success.main" ELSE "error.main"

\* validateTransaction stopping at the first violation
validateTransactionFailFast(rows) ==
    LET errors == AllRowErrors(rows, Len(rows))
                  \o (IF Unbalanced(rows) THEN <<BalanceMessage>> ELSE <<>>)
    IN  IF errors = <<>> THEN <<>> ELSE <<errors[1]>>

\* validateTransaction testing the balance only when every row is filled in
validateTransactionRowsFirst(rows) ==
    IF AllRowErrors(rows, Len(rows)) # <<>>
    THEN AllRowErrors(rows, Len(rows))
    ELSE IF Unbalanced(rows) THEN <<BalanceMessage>> ELSE <<>>

validateTransaction(rows) ==
    AllRowErrors(rows, Len(rows))
    \o (IF Unbalanced(rows) THEN <<BalanceMessage>> ELSE <<>>)

\* the body of the create request with the descriptions as typed
TransactionDataUntrimmed(d, rows) ==
    [date |-> d,
     details |-> [i \in 1..Len(rows) |->
                    Line(rows[i].account, rows[i].description,
                         toNumber(rows[i].amountStr), rows[i].type)]]

\* the body of the create request
TransactionData(d, rows) ==
    [date |-> d,
     details |-> [i \in 1..Len(rows) |->
                    Line(rows[i].account, Trim(rows[i].description),
                         toNumber(rows[i].amountStr), rows[i].type)]]

isEditing == editTransaction # Null

\* editTransaction.details.map(...) of init
RowsOf(t) ==
    [i \in 1..Len(t.details) |->
        Detail((i - 1) + 1, AccountNameOf(t.details[i]), t.details[i].description,
               StringOf(t.details[i].amount), t.details[i].type)]

\* --- React's update queue for setDetails ---------------------------------
\* A handler reads `details` as of the render that created it and queues its
\* setDetails call; Render applies the queued calls in order.

\* setDetails((prev) => [...prev, newDetail])
ApplyAdd(prev, newDetail) == Append(prev, newDetail)

\* the updater of removeDetailRow without its length test
ApplyRemoveNoGuard(prev, index) ==
    LET newDetails == IF index + 1 \in 1..Len(prev)
                      THEN RemoveAt(prev, index + 1)
                      ELSE prev
    IN  [i \in 1..Len(newDetails) |-> [newDetails[i] EXCEPT !.serialNo = (i - 1) + 1]]

\* the updater of removeDetailRow; index counts from 0
ApplyRemove(prev, index) ==
    IF Len(prev) <= 1 THEN prev
    ELSE LET newDetails == IF index + 1 \in 1..Len(prev)
                           THEN RemoveAt(prev, index + 1)
                           ELSE prev
         IN  [i \in 1..Len(newDetails) |->
                [newDetails[i] EXCEPT !.serialNo = (i - 1) + 1]]

ApplyUpdate(prev, u) ==
    CASE u.op = "add" -> ApplyAdd(prev, u.row)
      [] u.op = "remove" -> ApplyRemove(prev, u.index)
      [] u.op = "set" -> u.rows

RECURSIVE ApplyAll(_, _)
ApplyAll(prev, queue) ==
    IF queue = <<>> THEN prev
    ELSE ApplyAll(ApplyUpdate(prev, Head(queue)), Tail(queue))

\* the updater of updateDetail, for a row that exists; index counts from 0
updateDetail(prev, index, field, value) ==
    [prev EXCEPT ![index + 1] = [@ EXCEPT ![field] = value]]

\* rows the queued calls will have added once rendered
QueuedAdds == Cardinality({i \in 1..Len(pending) : pending[i].op = "add"})

\* --- what the user can type ----------------------------------------------
DescriptionInputs == {"", " x "}
AmountInputs == {"", "100"}
AccountChoices == {""} \cup {formAccounts[i].name : i \in 1..Len(formAccounts)}

\* --- the parent page ------------------------------------------------------
\* setAddModalOpen(true) / handleEditClick(t): the effect runs init()
OpenModal(t) ==
    /\ ~transactionsPage.loading
    /\ ~open
    /\ Len(inits) < MaxInits
    /\ open' = TRUE
    /\ editTransaction' = t
    /\ error' = <<>>
    /\ inits' = Append(inits, t)
    /\ UNCHANGED <<date, details, pending, formAccounts, loading, inflight, sent, stored,
                   reportVars, pageVars>>

\* onClose of the parent: Cancel, Escape or a click on the backdrop
CloseModal ==
    /\ ~transactionsPage.loading
    /\ open
    /\ open' = FALSE
    /\ editTransaction' = Null
    /\ UNCHANGED <<date, details, pending, formAccounts, loading, error, inits,
                   inflight, sent, stored, reportVars, pageVars>>

\* --- init(), after `await loadAccounts()` ---------------------------------
InitResume(i, loaded) ==
    /\ ~transactionsPage.loading
    /\ i \in 1..Len(inits)
    /\ Len(pending) < MaxPending
    /\ IF loaded
       THEN formAccounts' = ServerAccounts /\ UNCHANGED error
       ELSE error' = <<Message("Failed to load accounts", <<>>)>> /\ UNCHANGED formAccounts
    /\ IF inits[i] # Null
       THEN /\ date' = inits[i].date
            /\ pending' = Append(pending, [op |-> "set", rows |-> RowsOf(inits[i])])
       ELSE /\ date' = Today
            /\ pending' = Append(pending, [op |-> "set", rows |-> <<BlankRow>>])
    /\ inits' = RemoveAt(inits, i)
    /\ UNCHANGED <<open, editTransaction, details, loading, inflight, sent, stored, reportVars, pageVars>>

\* --- the row handlers -----------------------------------------------------
addDetailRow ==
    /\ ~transactionsPage.loading
    /\ open
    /\ Len(pending) < MaxPending
    /\ Len(details) + QueuedAdds < MaxRows
    /\ LET newDetail == Detail(Len(details) + 1, "", "", "", "credit")
       IN  pending' = Append(pending, [op |-> "add", row |-> newDetail])
    /\ UNCHANGED <<open, editTransaction, date, details, formAccounts, loading, error,
                   inits, inflight, sent, stored, reportVars, pageVars>>

\* the delete button of row index (from 0), disabled while one row is shown
removeDetailRow(index) ==
    /\ ~transactionsPage.loading
    /\ open
    /\ Len(pending) < MaxPending
    /\ index + 1 \in 1..Len(details)
    /\ Len(details) # 1
    /\ pending' = Append(pending, [op |-> "remove", index |-> index])
    /\ UNCHANGED <<open, editTransaction, date, details, formAccounts, loading, error,
                   inits, inflight, sent, stored, reportVars, pageVars>>

\* React renders: the queued setDetails calls take effect
Render ==
    /\ ~transactionsPage.loading
    /\ pending # <<>>
    /\ details' = ApplyAll(details, pending)
    /\ pending' = <<>>
    /\ UNCHANGED <<open, editTransaction, date, formAccounts, loading, error, inits,
                   inflight, sent, stored, reportVars, pageVars>>

\* A field edit is rendered before the next event is handled.
OnFieldChange(next) ==
    /\ ~transactionsPage.loading
    /\ open
    /\ pending = <<>>
    /\ details' = next
    /\ UNCHANGED <<open, editTransaction, date, pending, formAccounts, loading, error,
                   inits, inflight, sent, stored, reportVars, pageVars>>

OnAccountChange(index, value) ==
    /\ index + 1 \in 1..Len(details)
    /\ OnFieldChange(updateDetail(details, index, "account", value))

OnDescriptionChange(index, value) ==
    /\ index + 1 \in 1..Len(details)
    /\ OnFieldChange(updateDetail(details, index, "description", value))

\* the Credit Amount / Debit Amount inputs: switch the row's side, keep the text
OnAmountChange(index, side, value) ==
    /\ index + 1 \in 1..Len(details)
    /\ LET switched == IF details[index + 1].type # side
                       THEN updateDetail(details, index, "type", side)
                       ELSE details
       IN  OnFieldChange(updateDetail(switched, index, "amountStr", value))

OnDateChange(newValue) ==
    /\ ~transactionsPage.loading
    /\ open
    /\ date' = newValue
    /\ UNCHANGED <<open, editTransaction, details, pending, formAccounts, loading, error,
                   inits, inflight, sent, stored, reportVars, pageVars>>

\* --- submit ---------------------------------------------------------------
\* onTransactionAdded of the Transactions page: loadTransactions(), up to its
\* await. While the page's loading is set it renders "Loading..." in place of
\* its modals, and the form is mounted anew when the answer has come.
onTransactionAdded ==
    /\ transactionsPage' = [transactionsPage EXCEPT !.loading = TRUE, !.error = ""]
    /\ calls' = Append(calls, [api |-> "transactionAPI.getAll", arg |-> ""])

\* handleSubmit with the create issued in edit mode too
handleSubmitAlwaysCreates ==
    /\ ~transactionsPage.loading
    /\ open
    /\ ~loading
    /\ LET validationErrors == validateTransaction(details)
       IN  IF validationErrors # <<>>
           THEN /\ error' = validationErrors
                /\ UNCHANGED <<loading, inflight, sent>>
           ELSE /\ Len(sent) < MaxCreates
                /\ error' = <<>>
                /\ loading' = TRUE
                /\ inflight' = Append(inflight, TransactionData(date, details))
                /\ sent' = Append(sent, TransactionData(date, details))
    /\ UNCHANGED <<open, editTransaction, date, details, pending, formAccounts, inits, stored,
                   reportVars, pageVars>>

\* handleSubmit with the buttons left enabled while loading
handleSubmitWhileLoading ==
    /\ ~transactionsPage.loading
    /\ open
    /\ LET validationErrors == validateTransaction(details)
       IN  IF validationErrors # <<>>
           THEN /\ error' = validationErrors
                /\ UNCHANGED <<open, editTransaction, loading, inflight, sent,
                               transactionsPage, calls>>
           ELSE IF isEditing
                THEN \* console.log; onTransactionAdded(); onClose(); setLoading(false)
                     /\ error' = <<>>
                     /\ loading' = FALSE
                     /\ open' = FALSE
                     /\ editTransaction' = Null
                     /\ onTransactionAdded
                     /\ UNCHANGED <<inflight, sent>>
                ELSE /\ Len(sent) < MaxCreates
                     /\ error' = <<>>
                     /\ loading' = TRUE
                     /\ inflight' = Append(inflight, TransactionData(date, details))
                     /\ sent' = Append(sent, TransactionData(date, details))
                     /\ UNCHANGED <<open, editTransaction, transactionsPage, calls>>
    /\ UNCHANGED <<date, details, pending, formAccounts, inits, stored, reportVars>>
    /\ UNCHANGED <<accountModal, accountsPage, dashboard, serverAccounts>>

handleSubmit ==
    /\ ~transactionsPage.loading
    /\ open
    /\ ~loading
    /\ LET validationErrors == validateTransaction(details)
       IN  IF validationErrors # <<>>
           THEN /\ error' = validationErrors
                /\ UNCHANGED <<open, editTransaction, loading, inflight, sent,
                               transactionsPage, calls>>
           ELSE IF isEditing
                THEN \* console.log; onTransactionAdded(); onClose(); setLoading(false)
                     /\ error' = <<>>
                     /\ loading' = FALSE
                     /\ open' = FALSE
                     /\ editTransaction' = Null
                     /\ onTransactionAdded
                     /\ UNCHANGED <<inflight, sent>>
                ELSE /\ Len(sent) < MaxCreates
                     /\ error' = <<>>
                     /\ loading' = TRUE
                     /\ inflight' = Append(inflight, TransactionData(date, details))
                     /\ sent' = Append(sent, TransactionData(date, details))
                     /\ UNCHANGED <<open, editTransaction, transactionsPage, calls>>
    /\ UNCHANGED <<date, details, pending, formAccounts, inits, stored, reportVars>>
    /\ UNCHANGED <<accountModal, accountsPage, dashboard, serverAccounts>>

\* POST /transactions stores the lines under a new id, the account by its name
StoredTransaction(id, data) ==
    Transaction(id, data.date,
        [i \in 1..Len(data.details) |->
            [data.details[i] EXCEPT !.account = JsString(data.details[i].account)]])

\* the server stored the transaction: onTransactionAdded(); onClose()
CreateResolve(i) ==
    /\ i \in 1..Len(inflight)
    /\ stored' = Append(stored, StoredTransaction(Len(stored) + 1, inflight[i]))
    /\ inflight' = RemoveAt(inflight, i)
    /\ open' = FALSE
    /\ editTransaction' = Null
    /\ loading' = FALSE
    /\ onTransactionAdded
    /\ UNCHANGED <<date, details, pending, formAccounts, error, inits, sent, reportVars>>
    /\ UNCHANGED <<accountModal, accountsPage, dashboard, serverAccounts>>

\* the request failed, with the dialog closed as after a success
CreateRejectCloses(i) ==
    /\ i \in 1..Len(inflight)
    /\ inflight' = RemoveAt(inflight, i)
    /\ error' = <<Message("Failed to save transaction", <<>>)>>
    /\ loading' = FALSE
    /\ open' = FALSE
    /\ editTransaction' = Null
    /\ UNCHANGED <<date, details, pending, formAccounts, inits, sent, stored, reportVars,
                   pageVars>>

\* the request failed
CreateReject(i) ==
    /\ i \in 1..Len(inflight)
    /\ inflight' = RemoveAt(inflight, i)
    /\ error' = <<Message("Failed to save transaction", <<>>)>>
    /\ loading' = FALSE
    /\ UNCHANGED <<open, editTransaction, date, details, pending, formAccounts, inits,
                   sent, stored, reportVars, pageVars>>

\* ------------------------------------------------------------------------
\* Reports page: generateReports
\* ------------------------------------------------------------------------
Filters(selectedAccount, ownerAccountsOnly) ==
    [selectedAccount |-> selectedAccount, ownerAccountsOnly |-> ownerAccountsOnly]

\* new Date(date).getTime(), in days
GetTime(d) ==
    CASE d = "2024-01-04" -> 19726
      [] d = "2024-01-05" -> 19727
      [] d = "2024-01-06" -> 19728

\* accounts.filter(predicate)
RECURSIVE FilterAccounts(_, _, _)
FilterAccounts(accs, f, n) ==
    IF n = 0 THEN <<>>
    ELSE LET rest == FilterAccounts(accs, f, n - 1)
             keep == IF f.selectedAccount # ""
                     THEN accs[n].id = f.selectedAccount
                     ELSE IF f.ownerAccountsOnly THEN accs[n].isOwnerAccount ELSE TRUE
         IN  IF keep THEN Append(rest, accs[n]) ELSE rest

\* the filter with ownerAccountsOnly tested before selectedAccount
filteredAccountsOwnerFirst(accs, f) ==
    IF f.ownerAccountsOnly
    THEN FilterAccounts(accs, [f EXCEPT !.selectedAccount = ""], Len(accs))
    ELSE FilterAccounts(accs, f, Len(accs))

\* the filter without its ownerAccountsOnly branch
filteredAccountsIgnoreOwner(accs, f) ==
    FilterAccounts(accs, [f EXCEPT !.ownerAccountsOnly = FALSE], Len(accs))

filteredAccounts(accs, f) == FilterAccounts(accs, f, Len(accs))

Entry(transaction, detail) ==
    [transaction |-> transaction, amount |-> detail.amount, type |-> detail.type,
     description |-> detail.description]

\* the entries of a transaction with an embedded account matched by its id
RECURSIVE EntriesOfTransactionById(_, _, _)
EntriesOfTransactionById(account, transaction, n) ==
    IF n = 0 THEN <<>>
    ELSE LET rest == EntriesOfTransactionById(account, transaction, n - 1)
             detail == transaction.details[n]
         IN  IF (IF detail.account.typeof = "string"
                 THEN detail.account.string = account.name
                 ELSE detail.account.object.id = account.id)
             THEN Append(rest, Entry(transaction, detail))
             ELSE rest

\* the entries one transaction pushes for an account, in line order
RECURSIVE EntriesOfTransaction(_, _, _)
EntriesOfTransaction(account, transaction, n) ==
    IF n = 0 THEN <<>>
    ELSE LET rest == EntriesOfTransaction(account, transaction, n - 1)
         IN  IF AccountNameOf(transaction.details[n]) = account.name
             THEN Append(rest, Entry(transaction, transaction.details[n]))
             ELSE rest

\* accountTransactions before the sort: transactions in scan order
RECURSIVE accountTransactions(_, _, _)
accountTransactions(account, allTransactions, n) ==
    IF n = 0 THEN <<>>
    ELSE accountTransactions(account, allTransactions, n - 1)
         \o EntriesOfTransaction(account, allTransactions[n],
                                 Len(allTransactions[n].details))

\* sum += amount over the entries of one side, in push order, from `sum`
RECURSIVE Accumulate(_, _, _, _)
Accumulate(sum, entries, credit, n) ==
    IF n = 0 THEN sum
    ELSE LET before == Accumulate(sum, entries, credit, n - 1)
         IN  IF (entries[n].type = "credit") = credit
             THEN FAdd(before, entries[n].amount)
             ELSE before

\* the sort putting an entry before the entries of its date
RECURSIVE InsertByDateTiesFirst(_, _)
InsertByDateTiesFirst(sorted, e) ==
    IF sorted = <<>> THEN <<e>>
    ELSE IF GetTime(sorted[Len(sorted)].transaction.date) > GetTime(e.transaction.date)
         THEN Append(sorted, e)
         ELSE Append(InsertByDateTiesFirst(SubSeq(sorted, 1, Len(sorted) - 1), e),
                     sorted[Len(sorted)])

\* Array.prototype.sort((a, b) => time(b) - time(a)): stable, latest first
RECURSIVE InsertByDate(_, _)
InsertByDate(sorted, e) ==
    IF sorted = <<>> THEN <<e>>
    ELSE IF GetTime(sorted[Len(sorted)].transaction.date) >= GetTime(e.transaction.date)
         THEN Append(sorted, e)
         ELSE Append(InsertByDate(SubSeq(sorted, 1, Len(sorted) - 1), e),
                     sorted[Len(sorted)])

RECURSIVE SortByDate(_, _)
SortByDate(entries, n) ==
    IF n = 0 THEN <<>>
    ELSE InsertByDate(SortByDate(entries, n - 1), entries[n])

\* the forEach over filteredAccounts pushing a report for every account
RECURSIVE ScanAccountsKeepEmpty(_, _, _)
ScanAccountsKeepEmpty(accs, allTransactions, n) ==
    IF n = 0
    THEN [accountReports |-> <<>>, totalCredit |-> Zero, totalDebit |-> Zero]
    ELSE LET before == ScanAccountsKeepEmpty(accs, allTransactions, n - 1)
             account == accs[n]
             entries == accountTransactions(account, allTransactions, Len(allTransactions))
             accountCredit == Accumulate(Zero, entries, TRUE, Len(entries))
             accountDebit == Accumulate(Zero, entries, FALSE, Len(entries))
             report == [account |-> account,
                        totalCredit |-> accountCredit,
                        totalDebit |-> accountDebit,
                        netAmount |-> FSub(accountCredit, accountDebit),
                        transactions |-> SortByDate(entries, Len(entries))]
         IN  [accountReports |-> Append(before.accountReports, report),
              totalCredit |-> Accumulate(before.totalCredit, entries, TRUE, Len(entries)),
              totalDebit |-> Accumulate(before.totalDebit, entries, FALSE, Len(entries))]

\* the forEach over filteredAccounts: the reports pushed and the running totals
RECURSIVE ScanAccounts(_, _, _)
ScanAccounts(accs, allTransactions, n) ==
    IF n = 0
    THEN [accountReports |-> <<>>, totalCredit |-> Zero, totalDebit |-> Zero]
    ELSE LET before == ScanAccounts(accs, allTransactions, n - 1)
             account == accs[n]
             entries == accountTransactions(account, allTransactions, Len(allTransactions))
             accountCredit == Accumulate(Zero, entries, TRUE, Len(entries))
             accountDebit == Accumulate(Zero, entries, FALSE, Len(entries))
             report == [account |-> account,
                        totalCredit |-> accountCredit,
                        totalDebit |-> accountDebit,
                        netAmount |-> FSub(accountCredit, accountDebit),
                        transactions |-> SortByDate(entries, Len(entries))]
         IN  [accountReports |-> IF Len(entries) > 0
                                 THEN Append(before.accountReports, report)
                                 ELSE before.accountReports,
              totalCredit |-> Accumulate(before.totalCredit, entries, TRUE, Len(entries)),
              totalDebit |-> Accumulate(before.totalDebit, entries, FALSE, Len(entries))]

\* what generateReports computes from the accounts and filters it closed over
\* and the transactions fetched
Generate(accs, f, allTransactions) ==
    LET filtered == filteredAccounts(accs, f)
        scan == ScanAccounts(filtered, allTransactions, Len(filtered))
    IN  [reports |-> scan.accountReports,
         summary |-> [totalAccounts |-> Len(scan.accountReports),
                      totalCredit |-> scan.totalCredit,
                      totalDebit |-> scan.totalDebit,
                      netAmount |-> FSub(scan.totalCredit, scan.totalDebit)]]

EmptySummary ==
    [totalAccounts |-> 0, totalCredit |-> Zero, totalDebit |-> Zero, netAmount |-> Zero]

\* the [accounts, filters] effect: generateReports up to its await
RunEffect ==
    /\ effects > 0
    /\ effects' = effects - 1
    /\ IF Len(accounts) > 0
       THEN /\ reportsLoading' = TRUE
            /\ reportsError' = ""
            /\ generations' = Append(generations, [accounts |-> accounts, filters |-> filters])
       ELSE UNCHANGED <<reportsLoading, reportsError, generations>>
    /\ UNCHANGED <<accounts, filters, transactions, reports, summary, formVars, pageVars>>

\* loadTransactions answered: the rest of the try block, then finally
GenerateResolve(i) ==
    /\ i \in 1..Len(generations)
    /\ LET result == Generate(generations[i].accounts, generations[i].filters, stored)
       IN  /\ transactions' = stored
           /\ reports' = result.reports
           /\ summary' = result.summary
    /\ reportsLoading' = FALSE
    /\ generations' = RemoveAt(generations, i)
    /\ UNCHANGED <<accounts, filters, reportsError, effects, formVars, pageVars>>

\* loadTransactions threw: catch, then finally
GenerateReject(i) ==
    /\ i \in 1..Len(generations)
    /\ reportsError' = "Failed to generate reports"
    /\ reportsLoading' = FALSE
    /\ generations' = RemoveAt(generations, i)
    /\ UNCHANGED <<accounts, filters, transactions, reports, summary, effects, formVars, pageVars>>

\* --- the Reports page around generateReports --------------------------------
\* loadAccounts of the Reports page answered: setAccounts, and the
\* [accounts, filters] effect is due
ReportsLoadAccountsResolve(i) ==
    /\ i \in 1..Len(calls)
    /\ calls[i] = [api |-> "accountAPI.getAll", arg |-> "Reports"]
    /\ effects = 0
    /\ Len(generations) < MaxInFlight
    /\ accounts' = ServerAccounts
    /\ effects' = effects + 1
    /\ calls' = RemoveAt(calls, i)
    /\ UNCHANGED <<filters, transactions, reports, summary, reportsLoading, reportsError,
                   generations, formVars, accountModal, accountsPage, transactionsPage,
                   dashboard, serverAccounts>>

ReportsLoadAccountsReject(i) ==
    /\ i \in 1..Len(calls)
    /\ calls[i] = [api |-> "accountAPI.getAll", arg |-> "Reports"]
    /\ reportsError' = "Failed to load accounts"
    /\ calls' = RemoveAt(calls, i)
    /\ UNCHANGED <<accounts, filters, transactions, reports, summary, reportsLoading, effects,
                   generations, formVars, accountModal, accountsPage, transactionsPage,
                   dashboard, serverAccounts>>

\* handleFilterChange: a new filters object, so the effect is due. The page
\* shows "Loading reports..." in place of the filters while loading is set,
\* and an effect that is due runs before the next event is handled.
\* MaxInFlight caps the generations started while others are in flight.
handleFilterChange(field, value) ==
    /\ ~reportsLoading
    /\ effects = 0
    /\ Len(generations) < MaxInFlight
    /\ filters[field] # value
    /\ filters' = [filters EXCEPT ![field] = value]
    /\ effects' = effects + 1
    /\ UNCHANGED <<accounts, transactions, reports, summary, reportsLoading, reportsError,
                   generations, formVars, pageVars>>

\* the date pickers: handleFilterChange('startDate' / 'endDate', date). The
\* dates go to the server with the request and play no part in the page's
\* own computation.
DateFilterChange ==
    /\ ~reportsLoading
    /\ effects = 0
    /\ Len(generations) < MaxInFlight
    /\ effects' = effects + 1
    /\ UNCHANGED <<accounts, filters, transactions, reports, summary, reportsLoading,
                   reportsError, generations, formVars, pageVars>>

resetFilters ==
    /\ ~reportsLoading
    /\ effects = 0
    /\ Len(generations) < MaxInFlight
    /\ filters' = Filters("", FALSE)
    /\ effects' = effects + 1
    /\ UNCHANGED <<accounts, transactions, reports, summary, reportsLoading, reportsError,
                   generations, formVars, pageVars>>

\* the Generate Report button: generateReports up to its await
GenerateClick ==
    /\ ~reportsLoading
    /\ effects = 0
    /\ Len(generations) < MaxInFlight
    /\ reportsLoading' = TRUE
    /\ reportsError' = ""
    /\ generations' = Append(generations, [accounts |-> accounts, filters |-> filters])
    /\ UNCHANGED <<accounts, filters, transactions, reports, summary, effects, formVars,
                   pageVars>>

\* ------------------------------------------------------------------------
\* Accounts page: AddAccountModal
\* ------------------------------------------------------------------------
AccountType(id, name) == [id |-> id, name |-> name]

\* editAccount.type of an account whose type is not populated
NullType == AccountType("", "")

ServerAccountTypes == <<AccountType("t1", "Bank"), AccountType("t2", "Cash")>>

\* an Account as GET /accounts returns it; an optional field left out is ""
RegistryAccount(id, name, type, accountNo, branch, address, contact, isOwnerAccount) ==
    [id |-> id, name |-> name, type |-> type, accountNo |-> accountNo,
     branch |-> branch, address |-> address, contact |-> contact,
     isOwnerAccount |-> isOwnerAccount]

NullAccount == RegistryAccount("", "", NullType, "", "", "", "", FALSE)

SavedAccounts ==
    <<RegistryAccount("a1", "A", ServerAccountTypes[1], "x", "", "", "", TRUE),
      RegistryAccount("b1", "B", ServerAccountTypes[2], "", "", "", "", FALSE)>>

FormData(name, type, accountNo, branch, address, contact, isOwnerAccount) ==
    [name |-> name, type |-> type, accountNo |-> accountNo, branch |-> branch,
     address |-> address, contact |-> contact, isOwnerAccount |-> isOwnerAccount]

EmptyFormData == FormData("", "", "", "", "", "", FALSE)

\* the modal as mounted: closed, nothing typed
AccountModalMounted ==
    [open |-> FALSE, editAccount |-> NullAccount, formData |-> EmptyFormData,
     accountTypes |-> <<>>, loading |-> FALSE, error |-> ""]

Call(api, arg) == [api |-> api, arg |-> arg]

CallsOf(api) == Cardinality({i \in 1..Len(calls) : calls[i].api = api})

\* error.response?.data?.message of a failed request: a message of the server,
\* or none ("") when the failure carries no response
ResponseMessages == {"", "message of the server"}

Surfaced(message, fallback) == IF message # "" THEN message ELSE fallback

\* the [open, editAccount] effect with open true: the form is filled from
\* editAccount, or emptied, and loadAccountTypes() is called
AccountModalEffect(modal, account) ==
    [modal EXCEPT
        !.open = TRUE,
        !.editAccount = account,
        !.formData = IF account # NullAccount
                     THEN FormData(account.name, account.type.name, account.accountNo,
                                   account.branch, account.address, account.contact,
                                   account.isOwnerAccount)
                     ELSE EmptyFormData,
        !.error = ""]

\* the accounts saved so far (those the server did not hold at first) and the
\* saves in flight
Saves ==
    Cardinality({k \in 1..Len(serverAccounts) :
                    \A j \in 1..Len(SavedAccounts) : serverAccounts[k] # SavedAccounts[j]})
    + CallsOf("accountAPI.create") + CallsOf("accountAPI.update")

\* setAddModalOpen(true) / handleEditClick(account) of the page
OpenAccountModal(account) ==
    /\ ~accountModal.open
    /\ ~accountsPage.loading
    /\ Saves < MaxSaves
    /\ CallsOf("accountTypeAPI.getAll") < MaxLoads
    /\ accountModal' = AccountModalEffect(accountModal, account)
    /\ calls' = Append(calls, Call("accountTypeAPI.getAll", ""))
    /\ UNCHANGED <<accountsPage, transactionsPage, dashboard, serverAccounts, formVars,
                   reportVars>>

\* onClose of the page: Cancel, Escape or a click on the backdrop
CloseAccountModal ==
    /\ ~accountsPage.loading
    /\ accountModal.open
    /\ accountModal' = [accountModal EXCEPT !.open = FALSE, !.editAccount = NullAccount]
    /\ UNCHANGED <<accountsPage, transactionsPage, dashboard, calls, serverAccounts,
                   formVars, reportVars>>

LoadAccountTypesResolve(i) ==
    /\ i \in 1..Len(calls)
    /\ calls[i].api = "accountTypeAPI.getAll"
    /\ accountModal' = [accountModal EXCEPT !.accountTypes = ServerAccountTypes]
    /\ calls' = RemoveAt(calls, i)
    /\ UNCHANGED <<accountsPage, transactionsPage, dashboard, serverAccounts, formVars,
                   reportVars>>

LoadAccountTypesReject(i) ==
    /\ i \in 1..Len(calls)
    /\ calls[i].api = "accountTypeAPI.getAll"
    /\ accountModal' = [accountModal EXCEPT !.error = "Failed to load account types"]
    /\ calls' = RemoveAt(calls, i)
    /\ UNCHANGED <<accountsPage, transactionsPage, dashboard, serverAccounts, formVars,
                   reportVars>>

\* what the user puts into a field: the text fields take what is typed, the
\* select offers the names of the account types loaded (the checkbox is left
\* as the effect set it)
FieldInputs(field) ==
    CASE field = "name" -> {" ", " x "}
      [] field = "type" ->
            {accountModal.accountTypes[i].name : i \in 1..Len(accountModal.accountTypes)}
      [] field = "accountNo" -> {"", " x "}
      [] field = "branch" -> {"", " y "}
      [] field = "address" -> {"", " "}
      [] field = "contact" -> {"", " x "}

handleInputChange(field, value) ==
    /\ ~accountsPage.loading
    /\ accountModal.open
    /\ accountModal' = [accountModal EXCEPT !.formData = [@ EXCEPT ![field] = value]]
    /\ UNCHANGED <<accountsPage, transactionsPage, dashboard, calls, serverAccounts,
                   formVars, reportVars>>

OptionalFields == {"accountNo", "branch", "address", "contact"}

\* cleanData with every optional field set, empty or not
cleanDataKeepEmpty(formData) ==
    [f \in {"name", "type", "isOwnerAccount"} \cup OptionalFields |->
        IF f \in {"type", "isOwnerAccount"} THEN formData[f] ELSE Trim(formData[f])]

\* cleanData: the optional fields are set only when non-empty after trim
cleanData(formData) ==
    [f \in {"name", "type", "isOwnerAccount"}
           \cup {o \in OptionalFields : Trim(formData[o]) # ""} |->
        IF f \in {"type", "isOwnerAccount"} THEN formData[f] ELSE Trim(formData[f])]

\* handleSubmit of AddAccountModal with the name tested as typed
AccountSubmitNoTrim ==
    /\ ~accountsPage.loading
    /\ accountModal.open
    /\ ~accountModal.loading
    /\ IF accountModal.formData.name = ""
       THEN /\ accountModal' = [accountModal EXCEPT !.error = "Account name is required"]
            /\ UNCHANGED calls
       ELSE IF accountModal.formData.type = ""
            THEN /\ accountModal' = [accountModal EXCEPT !.error = "Account type is required"]
                 /\ UNCHANGED calls
            ELSE /\ accountModal' = [accountModal EXCEPT !.loading = TRUE, !.error = ""]
                 /\ calls' = Append(calls,
                        IF accountModal.editAccount # NullAccount
                        THEN Call("accountAPI.update",
                                  [id |-> accountModal.editAccount.id,
                                   data |-> cleanData(accountModal.formData),
                                   mounted |-> TRUE])
                        ELSE Call("accountAPI.create",
                                  [id |-> "", data |-> cleanData(accountModal.formData),
                                   mounted |-> TRUE]))
    /\ UNCHANGED <<accountsPage, transactionsPage, dashboard, serverAccounts, formVars,
                   reportVars>>

\* handleSubmit of AddAccountModal, up to its await
AccountSubmit ==
    /\ ~accountsPage.loading
    /\ accountModal.open
    /\ ~accountModal.loading
    /\ IF Trim(accountModal.formData.name) = ""
       THEN /\ accountModal' = [accountModal EXCEPT !.error = "Account name is required"]
            /\ UNCHANGED calls
       ELSE IF accountModal.formData.type = ""
            THEN /\ accountModal' = [accountModal EXCEPT !.error = "Account type is required"]
                 /\ UNCHANGED calls
            ELSE /\ accountModal' = [accountModal EXCEPT !.loading = TRUE, !.error = ""]
                 /\ calls' = Append(calls,
                        IF accountModal.editAccount # NullAccount
                        THEN Call("accountAPI.update",
                                  [id |-> accountModal.editAccount.id,
                                   data |-> cleanData(accountModal.formData),
                                   mounted |-> TRUE])
                        ELSE Call("accountAPI.create",
                                  [id |-> "", data |-> cleanData(accountModal.formData),
                                   mounted |-> TRUE]))
    /\ UNCHANGED <<accountsPage, transactionsPage, dashboard, serverAccounts, formVars,
                   reportVars>>

\* --- the server's answers to create and update ------------------------------
AccountIds == <<"a1", "b1", "c1", "d1", "e1", "f1">>

\* the id the server gives the next account stored
NewAccountId ==
    AccountIds[CHOOSE n \in 1..Len(AccountIds) :
                  /\ \A i \in 1..Len(serverAccounts) : serverAccounts[i].id # AccountIds[n]
                  /\ \A m \in 1..(n - 1) :
                        \E i \in 1..Len(serverAccounts) : serverAccounts[i].id = AccountIds[m]]

TypeNamed(name) ==
    IF \E i \in 1..Len(ServerAccountTypes) : ServerAccountTypes[i].name = name
    THEN ServerAccountTypes[CHOOSE i \in 1..Len(ServerAccountTypes) :
                                ServerAccountTypes[i].name = name]
    ELSE NullType

Optional(data, field) == IF field \in DOMAIN data THEN data[field] ELSE ""

\* POST /accounts: the account stored for the payload
AccountOfData(id, data) ==
    RegistryAccount(id, data.name, TypeNamed(data.type), Optional(data, "accountNo"),
                    Optional(data, "branch"), Optional(data, "address"),
                    Optional(data, "contact"), data.isOwnerAccount)

IsAccountId(id) == \E i \in 1..Len(serverAccounts) : serverAccounts[i].id = id

\* loadAccounts of the Accounts page up to its await. While loading is set the
\* page renders "Loading..." in place of its modals: the AddAccountModal is
\* mounted anew afterwards, the answers to the account types it asked for are
\* lost, and a save it has in flight finds it gone.
StartLoadAccounts ==
    accountsPage' = [accountsPage EXCEPT !.loading = TRUE, !.error = ""]

CallsAfterUnmount(rest) ==
    LET kept == SelectSeq(rest, LAMBDA c : c.api # "accountTypeAPI.getAll")
    IN  [k \in 1..Len(kept) |->
            IF kept[k].api \in {"accountAPI.create", "accountAPI.update"}
            THEN [kept[k] EXCEPT !.arg.mounted = FALSE]
            ELSE kept[k]]
        \o <<Call("accountAPI.getAll", "")>>

\* the server stored the account: onAccountAdded(); onClose(); finally
AccountSaveResolve(i) ==
    /\ i \in 1..Len(calls)
    /\ calls[i].api \in {"accountAPI.create", "accountAPI.update"}
    /\ calls[i].api = "accountAPI.update" => IsAccountId(calls[i].arg.id)
    /\ serverAccounts' =
          IF calls[i].api = "accountAPI.create"
          THEN Append(serverAccounts, AccountOfData(NewAccountId, calls[i].arg.data))
          ELSE [k \in 1..Len(serverAccounts) |->
                  IF serverAccounts[k].id = calls[i].arg.id
                  THEN AccountOfData(calls[i].arg.id, calls[i].arg.data)
                  ELSE serverAccounts[k]]
    /\ StartLoadAccounts
    /\ accountModal' = AccountModalMounted
    /\ calls' = CallsAfterUnmount(RemoveAt(calls, i))
    /\ UNCHANGED <<transactionsPage, dashboard, formVars, reportVars>>

\* the request failed: catch, finally (they set the state of the modal that
\* sent the request, if it is still there)
AccountSaveReject(i, message) ==
    /\ i \in 1..Len(calls)
    /\ calls[i].api \in {"accountAPI.create", "accountAPI.update"}
    /\ accountModal' =
          IF calls[i].arg.mounted
          THEN [accountModal EXCEPT
                   !.error = Surfaced(message, IF calls[i].api = "accountAPI.update"
                                               THEN "Failed to update account"
                                               ELSE "Failed to create account"),
                   !.loading = FALSE]
          ELSE accountModal
    /\ calls' = RemoveAt(calls, i)
    /\ UNCHANGED <<accountsPage, transactionsPage, dashboard, serverAccounts, formVars,
                   reportVars>>

\* ------------------------------------------------------------------------
\* Accounts page
\* ------------------------------------------------------------------------
AccountsPageMounted ==
    [accounts |-> <<>>, loading |-> TRUE, deleteDialogOpen |-> FALSE,
     selectedAccount |-> NullAccount, error |-> "", deleteLoading |-> FALSE]

\* the Refresh button
RefreshAccounts ==
    /\ ~accountsPage.loading
    /\ ~accountModal.open
    /\ ~accountsPage.deleteDialogOpen
    /\ CallsOf("accountAPI.getAll") < MaxLoads
    /\ StartLoadAccounts
    /\ accountModal' = AccountModalMounted
    /\ calls' = CallsAfterUnmount(calls)
    /\ UNCHANGED <<transactionsPage, dashboard, serverAccounts, formVars, reportVars>>

\* The page renders its modals again: a modal whose open prop is still set
\* runs its effect as it is mounted.
AccountModalMountedAnew(rest) ==
    IF accountsPage.loading /\ accountModal.open
    THEN /\ accountModal' = AccountModalEffect(accountModal, accountModal.editAccount)
         /\ calls' = Append(rest, Call("accountTypeAPI.getAll", ""))
    ELSE /\ calls' = rest
         /\ UNCHANGED accountModal

LoadAccountsResolve(i) ==
    /\ i \in 1..Len(calls)
    /\ calls[i].api = "accountAPI.getAll"
    /\ accountsPage' = [accountsPage EXCEPT !.accounts = serverAccounts, !.loading = FALSE]
    /\ AccountModalMountedAnew(RemoveAt(calls, i))
    /\ UNCHANGED <<transactionsPage, dashboard, serverAccounts, formVars, reportVars>>

LoadAccountsReject(i) ==
    /\ i \in 1..Len(calls)
    /\ calls[i].api = "accountAPI.getAll"
    /\ accountsPage' = [accountsPage EXCEPT !.error = "Failed to load accounts",
                                            !.loading = FALSE]
    /\ AccountModalMountedAnew(RemoveAt(calls, i))
    /\ UNCHANGED <<transactionsPage, dashboard, serverAccounts, formVars, reportVars>>

\* handleDeleteClick of the Accounts page
AccountDeleteClick(account) ==
    /\ ~accountsPage.loading
    /\ ~accountModal.open
    /\ ~accountsPage.deleteDialogOpen
    /\ accountsPage' = [accountsPage EXCEPT !.selectedAccount = account,
                                            !.deleteDialogOpen = TRUE]
    /\ UNCHANGED <<accountModal, transactionsPage, dashboard, calls, serverAccounts,
                   formVars, reportVars>>

\* handleDeleteDialogClose: Cancel (disabled while deleting), Escape, backdrop
AccountDeleteDialogClose ==
    /\ ~accountsPage.loading
    /\ accountsPage.deleteDialogOpen
    /\ accountsPage' = [accountsPage EXCEPT !.deleteDialogOpen = FALSE,
                                            !.selectedAccount = NullAccount]
    /\ UNCHANGED <<accountModal, transactionsPage, dashboard, calls, serverAccounts,
                   formVars, reportVars>>

\* handleDeleteConfirm that also deletes the transactions naming the account
AccountDeleteConfirmCascade ==
    /\ ~accountsPage.loading
    /\ accountsPage.deleteDialogOpen
    /\ ~accountsPage.deleteLoading
    /\ accountsPage.selectedAccount # NullAccount
    /\ accountsPage' = [accountsPage EXCEPT !.deleteLoading = TRUE]
    /\ calls' = Append(calls, Call("accountAPI.delete", accountsPage.selectedAccount.id))
                \o [k \in 1..Len(stored) |-> Call("transactionAPI.delete", stored[k].id)]
    /\ UNCHANGED <<accountModal, transactionsPage, dashboard, serverAccounts, formVars,
                   reportVars>>

\* handleDeleteConfirm of the Accounts page, up to its await
AccountDeleteConfirm ==
    /\ ~accountsPage.loading
    /\ accountsPage.deleteDialogOpen
    /\ ~accountsPage.deleteLoading
    /\ accountsPage.selectedAccount # NullAccount
    /\ accountsPage' = [accountsPage EXCEPT !.deleteLoading = TRUE]
    /\ calls' = Append(calls, Call("accountAPI.delete", accountsPage.selectedAccount.id))
    /\ UNCHANGED <<accountModal, transactionsPage, dashboard, serverAccounts, formVars,
                   reportVars>>

\* DELETE /accounts/:id answered 2xx: the account is gone from the registry
AccountDeleteResolve(i) ==
    /\ i \in 1..Len(calls)
    /\ calls[i].api = "accountAPI.delete"
    /\ IsAccountId(calls[i].arg)
    /\ serverAccounts' = SelectSeq(serverAccounts, LAMBDA a : a.id # calls[i].arg)
    /\ accountsPage' = [accountsPage EXCEPT !.deleteDialogOpen = FALSE,
                                            !.selectedAccount = NullAccount,
                                            !.loading = TRUE,
                                            !.error = "",
                                            !.deleteLoading = FALSE]
    /\ accountModal' = [AccountModalMounted EXCEPT !.open = accountModal.open]
    /\ calls' = CallsAfterUnmount(RemoveAt(calls, i))
    /\ UNCHANGED <<transactionsPage, dashboard, formVars, reportVars>>

\* the request failed (the id is unknown to the server, or the transport failed)
AccountDeleteReject(i, message) ==
    /\ i \in 1..Len(calls)
    /\ calls[i].api = "accountAPI.delete"
    /\ accountsPage' = [accountsPage EXCEPT
                           !.error = Surfaced(message, "Failed to delete account"),
                           !.deleteLoading = FALSE]
    /\ calls' = RemoveAt(calls, i)
    /\ UNCHANGED <<accountModal, transactionsPage, dashboard, serverAccounts, formVars,
                   reportVars>>

\* ------------------------------------------------------------------------
\* Transactions page
\* ------------------------------------------------------------------------
TransactionsPageMounted ==
    [transactions |-> <<>>, loading |-> TRUE, deleteDialogOpen |-> FALSE,
     selectedTransaction |-> Null, error |-> "", deleteLoading |-> FALSE]

IsTransactionId(id) == \E i \in 1..Len(stored) : stored[i].id = id

\* loadTransactions of the Transactions page, up to its await. While loading
\* is set the page renders "Loading..." in place of its modals.
StartLoadTransactions ==
    transactionsPage' = [transactionsPage EXCEPT !.loading = TRUE, !.error = ""]

\* The page renders its modals again: the transaction form is mounted anew,
\* with the initial values of its state and, when its open prop is still set,
\* its init() awaiting the accounts. (The values the form had when it was taken
\* down are kept in the variables until here; no handler can read them.)
FormMountedAnew ==
    /\ date' = Today
    /\ details' = <<BlankRow>>
    /\ pending' = <<>>
    /\ formAccounts' = <<>>
    /\ loading' = FALSE
    /\ error' = <<>>
    /\ inits' = IF open THEN <<editTransaction>> ELSE <<>>
    /\ UNCHANGED <<open, editTransaction, inflight, sent, stored>>

\* the Refresh button
RefreshTransactions ==
    /\ ~transactionsPage.loading
    /\ ~open
    /\ ~transactionsPage.deleteDialogOpen
    /\ CallsOf("transactionAPI.getAll") < MaxLoads
    /\ StartLoadTransactions
    /\ calls' = Append(calls, Call("transactionAPI.getAll", ""))
    /\ UNCHANGED <<accountModal, accountsPage, dashboard, serverAccounts, formVars,
                   reportVars>>

TransactionsLoadResolve(i) ==
    /\ i \in 1..Len(calls)
    /\ calls[i].api = "transactionAPI.getAll"
    /\ transactionsPage' = [transactionsPage EXCEPT !.transactions = stored,
                                                    !.loading = FALSE]
    /\ calls' = RemoveAt(calls, i)
    /\ IF transactionsPage.loading THEN FormMountedAnew ELSE UNCHANGED formVars
    /\ UNCHANGED <<accountModal, accountsPage, dashboard, serverAccounts, reportVars>>

\* loadTransactions without its finally block
TransactionsLoadRejectStuck(i) ==
    /\ i \in 1..Len(calls)
    /\ calls[i].api = "transactionAPI.getAll"
    /\ transactionsPage' = [transactionsPage EXCEPT !.error = "Failed to load transactions"]
    /\ calls' = RemoveAt(calls, i)
    /\ UNCHANGED <<accountModal, accountsPage, dashboard, serverAccounts, formVars,
                   reportVars>>

TransactionsLoadReject(i) ==
    /\ i \in 1..Len(calls)
    /\ calls[i].api = "transactionAPI.getAll"
    /\ transactionsPage' = [transactionsPage EXCEPT !.error = "Failed to load transactions",
                                                    !.loading = FALSE]
    /\ calls' = RemoveAt(calls, i)
    /\ IF transactionsPage.loading THEN FormMountedAnew ELSE UNCHANGED formVars
    /\ UNCHANGED <<accountModal, accountsPage, dashboard, serverAccounts, reportVars>>

\* handleDeleteClick of the Transactions page
TransactionDeleteClick(transaction) ==
    /\ ~transactionsPage.loading
    /\ ~open
    /\ ~transactionsPage.deleteDialogOpen
    /\ transactionsPage' = [transactionsPage EXCEPT !.selectedTransaction = transaction,
                                                    !.deleteDialogOpen = TRUE]
    /\ UNCHANGED <<accountModal, accountsPage, dashboard, calls, serverAccounts, formVars,
                   reportVars>>

\* onClose of the dialog: Cancel (disabled while deleting), Escape, backdrop
TransactionDeleteDialogClose ==
    /\ ~transactionsPage.loading
    /\ transactionsPage.deleteDialogOpen
    /\ transactionsPage' = [transactionsPage EXCEPT !.deleteDialogOpen = FALSE]
    /\ UNCHANGED <<accountModal, accountsPage, dashboard, calls, serverAccounts, formVars,
                   reportVars>>

\* handleDeleteConfirm deleting the first transaction listed
TransactionDeleteConfirmFirstListed ==
    /\ ~transactionsPage.loading
    /\ transactionsPage.deleteDialogOpen
    /\ ~transactionsPage.deleteLoading
    /\ transactionsPage.selectedTransaction # Null
    /\ transactionsPage' = [transactionsPage EXCEPT !.deleteLoading = TRUE]
    /\ calls' = Append(calls, Call("transactionAPI.delete",
                                   transactionsPage.transactions[1].id))
    /\ UNCHANGED <<accountModal, accountsPage, dashboard, serverAccounts, formVars,
                   reportVars>>

\* handleDeleteConfirm of the Transactions page, up to its await
TransactionDeleteConfirm ==
    /\ ~transactionsPage.loading
    /\ transactionsPage.deleteDialogOpen
    /\ ~transactionsPage.deleteLoading
    /\ transactionsPage.selectedTransaction # Null
    /\ transactionsPage' = [transactionsPage EXCEPT !.deleteLoading = TRUE]
    /\ calls' = Append(calls, Call("transactionAPI.delete",
                                   transactionsPage.selectedTransaction.id))
    /\ UNCHANGED <<accountModal, accountsPage, dashboard, serverAccounts, formVars,
                   reportVars>>

\* DELETE /transactions/:id answered 2xx: the transaction is gone
TransactionDeleteResolve(i) ==
    /\ i \in 1..Len(calls)
    /\ calls[i].api = "transactionAPI.delete"
    /\ IsTransactionId(calls[i].arg)
    /\ stored' = SelectSeq(stored, LAMBDA t : t.id # calls[i].arg)
    /\ transactionsPage' = [transactionsPage EXCEPT !.deleteDialogOpen = FALSE,
                                                    !.selectedTransaction = Null,
                                                    !.loading = TRUE,
                                                    !.error = "",
                                                    !.deleteLoading = FALSE]
    /\ calls' = Append(RemoveAt(calls, i), Call("transactionAPI.getAll", ""))
    /\ editTransaction' = Null
    /\ UNCHANGED <<open, date, details, pending, formAccounts, loading, error, inits,
                   inflight, sent>>
    /\ UNCHANGED <<accountModal, accountsPage, dashboard, serverAccounts, reportVars>>

\* handleDeleteConfirm with a catch that only logs
TransactionDeleteRejectSilent(i, message) ==
    /\ i \in 1..Len(calls)
    /\ calls[i].api = "transactionAPI.delete"
    /\ transactionsPage' = [transactionsPage EXCEPT !.deleteLoading = FALSE]
    /\ calls' = RemoveAt(calls, i)
    /\ UNCHANGED <<accountModal, accountsPage, dashboard, serverAccounts, formVars,
                   reportVars>>

\* the request failed (the id is unknown to the server, or the transport failed)
TransactionDeleteReject(i, message) ==
    /\ i \in 1..Len(calls)
    /\ calls[i].api = "transactionAPI.delete"
    /\ transactionsPage' = [transactionsPage EXCEPT
                               !.error = Surfaced(message, "Failed to delete transaction"),
                               !.deleteLoading = FALSE]
    /\ calls' = RemoveAt(calls, i)
    /\ UNCHANGED <<accountModal, accountsPage, dashboard, serverAccounts, formVars,
                   reportVars>>

\* ------------------------------------------------------------------------
\* Dashboard
\* ------------------------------------------------------------------------
Stats(totalAccounts, ownerAccounts, totalTransactions, totalAccountTypes) ==
    [totalAccounts |-> totalAccounts, ownerAccounts |-> ownerAccounts,
     totalTransactions |-> totalTransactions, totalAccountTypes |-> totalAccountTypes]

DashboardMounted == [stats |-> Stats(0, 0, 0, 0)]

\* GET /dashboard/stats: the counts of what the server holds
ServerStats ==
    Stats(Len(serverAccounts),
          Cardinality({i \in 1..Len(serverAccounts) : serverAccounts[i].isOwnerAccount}),
          Len(stored), Len(ServerAccountTypes))

LoadDashboardResolve(i) ==
    /\ i \in 1..Len(calls)
    /\ calls[i].api = "dashboardAPI.getStats"
    /\ dashboard' = [dashboard EXCEPT !.stats = ServerStats]
    /\ calls' = RemoveAt(calls, i)
    /\ UNCHANGED <<accountModal, accountsPage, transactionsPage, serverAccounts, formVars,
                   reportVars>>

\* catch: console.error, nothing else
LoadDashboardReject(i) ==
    /\ i \in 1..Len(calls)
    /\ calls[i].api = "dashboardAPI.getStats"
    /\ calls' = RemoveAt(calls, i)
    /\ UNCHANGED <<accountModal, accountsPage, transactionsPage, dashboard, serverAccounts,
                   formVars, reportVars>>

\* the pages as shown with what the server holds at first, nothing in flight
PagesIdle ==
    /\ accountModal = AccountModalMounted
    /\ accountsPage = [AccountsPageMounted EXCEPT !.accounts = SavedAccounts,
                                                  !.loading = FALSE]
    /\ transactionsPage = [TransactionsPageMounted EXCEPT !.transactions = <<RentTransaction>>,
                                                          !.loading = FALSE]
    /\ dashboard = DashboardMounted
    /\ calls = <<>>
    /\ serverAccounts = SavedAccounts

\* ------------------------------------------------------------------------
\* Specifications of the transaction form
\* ------------------------------------------------------------------------
vars == <<formVars, reportVars, pageVars>>

\* Rows left in the closed form by earlier use: the blank row of a fresh form,
\* a balanced pair, and the pair followed by a row not filled in yet.
LeftoverRows ==
    {<<[account |-> "", description |-> "", amountStr |-> "", type |-> "credit"]>>,
     <<[account |-> "A", description |-> " x ", amountStr |-> "100", type |-> "credit"],
       [account |-> "B", description |-> " y ", amountStr |-> "100", type |-> "debit"]>>,
     <<[account |-> "A", description |-> " x ", amountStr |-> "100", type |-> "credit"],
       [account |-> "B", description |-> " y ", amountStr |-> "100", type |-> "debit"],
       [account |-> "", description |-> "", amountStr |-> "", type |-> "credit"]>>}

\* the rows numbered as the form numbers them when every event is rendered
Numbered(rows) ==
    [i \in 1..Len(rows) |->
        Detail(i, rows[i].account, rows[i].description, rows[i].amountStr, rows[i].type)]

\* the Reports page is not in use
ReportsIdle ==
    /\ accounts = <<>>
    /\ filters = Filters("", FALSE)
    /\ transactions = <<>>
    /\ reports = <<>>
    /\ summary = EmptySummary
    /\ reportsLoading = FALSE
    /\ reportsError = ""
    /\ effects = 0
    /\ generations = <<>>

\* The form as mounted by the Transactions page and closed.
Init ==
    /\ ReportsIdle
    /\ PagesIdle
    /\ open = FALSE
    /\ editTransaction = Null
    /\ date = Today
    /\ \E rows \in LeftoverRows : details = Numbered(rows)
    /\ pending = <<>>
    /\ formAccounts \in {<<>>, ServerAccounts}
    /\ loading = FALSE
    /\ error = <<>>
    /\ inits = <<>>
    /\ inflight = <<>>
    /\ sent = <<>>
    /\ stored = <<RentTransaction>>

\* The parent opens and closes the form, rows are added and removed, React
\* renders when it gets to it, the user submits.
Next ==
    \/ \E t \in {Null} \cup {transactionsPage.transactions[i] :
                                i \in 1..Len(transactionsPage.transactions)} : OpenModal(t)
    \/ CloseModal
    \/ \E i \in 1..MaxInits, loaded \in BOOLEAN : InitResume(i, loaded)
    \/ addDetailRow
    \/ \E index \in 0..(MaxRows - 1) : removeDetailRow(index)
    \/ Render
    \/ handleSubmit
    \/ \E i \in 1..MaxCreates : CreateResolve(i)
    \/ \E i \in 1..MaxCreates : CreateReject(i)
    \/ \E i \in 1..MaxCreates : TransactionsLoadResolve(i)
    \/ \E i \in 1..MaxCreates : TransactionsLoadReject(i)

Spec == Init /\ [][Next]_vars

\* --- the row list ---------------------------------------------------------
\* The form open on rows left by earlier use, its init() awaiting the
\* accounts: rows are added and removed, React renders when it gets to it,
\* the user submits.
InitRows ==
    /\ ReportsIdle
    /\ PagesIdle
    /\ open = TRUE
    /\ editTransaction \in {Null, RentTransaction}
    /\ date = Today
    /\ \E rows \in LeftoverRows : Len(rows) <= MaxRows /\ details = Numbered(rows)
    /\ pending = <<>>
    /\ formAccounts = <<>>
    /\ loading = FALSE
    /\ error = <<>>
    /\ inits = <<editTransaction>>
    /\ inflight = <<>>
    /\ sent = <<>>
    /\ stored = <<RentTransaction>>

NextRows ==
    \/ \E i \in 1..MaxInits : InitResume(i, TRUE)
    \/ addDetailRow
    \/ \E index \in 0..(MaxRows - 1) : removeDetailRow(index)
    \/ Render
    \/ handleSubmit
    \/ \E i \in 1..MaxCreates : CreateResolve(i)

SpecRows == InitRows /\ [][NextRows]_vars

\* --- validation as a function of the rows ---------------------------------
\* Rows a user can have typed: filled-in rows on either side, among them the
\* rows of the worked examples and amounts of 0.01 and 0.02, rows with a
\* missing account, a blank or missing description, a negative, zero or
\* infinite amount, and the row with nothing filled in.
SampleRows ==
    {[account |-> "A", description |-> " x ", amountStr |-> "100", type |-> "credit"],
     [account |-> "A", description |-> " x ", amountStr |-> "100", type |-> "debit"],
     [account |-> "B", description |-> " y ", amountStr |-> "90", type |-> "debit"],
     [account |-> "B", description |-> " y ", amountStr |-> "5", type |-> "debit"],
     [account |-> "A", description |-> " x ", amountStr |-> "0.01", type |-> "credit"],
     [account |-> "B", description |-> " y ", amountStr |-> "0.02", type |-> "debit"],
     [account |-> "", description |-> " x ", amountStr |-> "100", type |-> "credit"],
     [account |-> "A", description |-> " ", amountStr |-> "100", type |-> "debit"],
     [account |-> "B", description |-> "", amountStr |-> "90", type |-> "debit"],
     [account |-> "A", description |-> " x ", amountStr |-> "-5", type |-> "credit"],
     [account |-> "", description |-> "", amountStr |-> "", type |-> "credit"],
     [account |-> "A", description |-> " x ", amountStr |-> "0", type |-> "credit"],
     [account |-> "A", description |-> " x ", amountStr |-> "Infinity", type |-> "debit"]}

InitValidate ==
    /\ ReportsIdle
    /\ PagesIdle
    /\ open = TRUE
    /\ editTransaction \in {Null, RentTransaction}
    /\ date = Today
    /\ \E n \in 1..MaxLines : \E rows \in [1..n -> SampleRows] : details = Numbered(rows)
    /\ pending = <<>>
    /\ formAccounts = ServerAccounts
    /\ loading = FALSE
    /\ error = <<>>
    /\ inits = <<>>
    /\ inflight = <<>>
    /\ sent = <<>>
    /\ stored = <<RentTransaction>>

NextValidate ==
    \/ handleSubmit
    \/ \E i \in 1..MaxCreates : CreateResolve(i)
    \/ \E i \in 1..MaxCreates : CreateReject(i)

SpecValidate == InitValidate /\ [][NextValidate]_vars

\* The form open on two rows filled in; the user edits the descriptions, the
\* amounts, the sides and the date and submits, also while a request is in
\* flight.
InitEdit ==
    /\ ReportsIdle
    /\ PagesIdle
    /\ open = TRUE
    /\ editTransaction = Null
    /\ date = Today
    /\ details = Numbered(
          <<[account |-> "A", description |-> " x ", amountStr |-> "100", type |-> "credit"],
            [account |-> "B", description |-> " y ", amountStr |-> "100", type |-> "debit"]>>)
    /\ pending = <<>>
    /\ formAccounts = ServerAccounts
    /\ loading = FALSE
    /\ error = <<>>
    /\ inits = <<>>
    /\ inflight = <<>>
    /\ sent = <<>>
    /\ stored = <<RentTransaction>>

NextEdit ==
    \/ \E index \in 0..1, value \in DescriptionInputs : OnDescriptionChange(index, value)
    \/ \E index \in 0..1, side \in {"credit", "debit"}, value \in AmountInputs :
           OnAmountChange(index, side, value)
    \/ \E newValue \in Dates : OnDateChange(newValue)
    \/ handleSubmit
    \/ \E i \in 1..MaxCreates : CreateResolve(i)
    \/ \E i \in 1..MaxCreates : CreateReject(i)

SpecEdit == InitEdit /\ [][NextEdit]_vars

\* The form open on two rows filled in; the user submits, closes the dialog
\* with Escape or the backdrop (also while the request is in flight), opens
\* it again and changes an amount; the page reloads after a create.
NextSubmit ==
    \/ handleSubmit
    \/ \E i \in 1..MaxCreates : CreateResolve(i)
    \/ \E i \in 1..MaxCreates : CreateReject(i)
    \/ CloseModal
    \/ OpenModal(Null)
    \/ \E i \in 1..MaxInits, loaded \in BOOLEAN : InitResume(i, loaded)
    \/ Render
    \/ \E value \in AmountInputs : OnAmountChange(0, "credit", value)
    \/ \E i \in 1..Len(calls) : TransactionsLoadResolve(i)
    \/ \E i \in 1..Len(calls) : TransactionsLoadReject(i)

SpecSubmit == InitEdit /\ [][NextSubmit]_vars

\* ------------------------------------------------------------------------
\* Specification of the report aggregator
\* ------------------------------------------------------------------------
\* Transactions the server can answer with.  Lines name their account by a
\* string or carry the account object; "Z" is the name of no account.
SampleTransactions ==
    {RentTransaction,
     Transaction(2, "2024-01-06",
        <<Line(JsString("A"), "fee", DoubleOf("0.1"), "credit"),
          Line(JsString("B"), "fee", DoubleOf("0.1"), "debit")>>),
     Transaction(3, "2024-01-04",
        <<Line(JsString("A"), "fee", DoubleOf("0.2"), "credit"),
          Line(JsObject(AccountB), "fee", DoubleOf("0.2"), "debit")>>),
     Transaction(4, "2024-01-05",
        <<Line(JsObject(AccountA), "tax", DoubleOf("0.3"), "credit"),
          Line(JsString("Z"), "tax", DoubleOf("0.3"), "debit")>>),
     Transaction(5, "2024-01-06",
        <<Line(JsString("B"), "loan", DoubleOf("100"), "credit"),
          Line(JsString("C"), "loan", DoubleOf("90"), "debit"),
          Line(JsString("A"), "loan", DoubleOf("5"), "debit"),
          Line(JsString("A"), "cash", DoubleOf("5"), "debit")>>),
     Transaction(6, "2024-01-04",
        <<Line(JsString("Z"), "void", DoubleOf("5"), "credit")>>),
     Transaction(7, "2024-01-05",
        <<Line(JsString("B"), "back", DoubleOf("0.3"), "credit"),
          Line(JsString("A"), "back", DoubleOf("0.3"), "debit")>>)}

\* account a1 after it was renamed from "A" to "A2"
AccountARenamed == Account("a1", "A2", TRUE)

SampleAccounts ==
    {<<AccountA, AccountB>>, <<AccountA, AccountB, AccountC>>, <<AccountC, AccountB, AccountA>>,
     <<AccountARenamed, AccountB>>}

SampleFilters ==
    {Filters(selected, owner) : selected \in {"", "a1", "b1", "c1"}, owner \in BOOLEAN}

\* sequences of n different sample transactions
Distinct(seq) == \A i, j \in 1..Len(seq) : i # j => seq[i] # seq[j]

\* The Reports page with its accounts loaded and its effect about to run,
\* before a server holding any transactions.
InitGenerate ==
    /\ PagesIdle
    /\ open = FALSE
    /\ editTransaction = Null
    /\ date = Today
    /\ details = <<BlankRow>>
    /\ pending = <<>>
    /\ formAccounts = <<>>
    /\ loading = FALSE
    /\ error = <<>>
    /\ inits = <<>>
    /\ inflight = <<>>
    /\ sent = <<>>
    /\ \E n \in 0..MaxTxns : \E seq \in [1..n -> SampleTransactions] :
           Distinct(seq) /\ stored = seq
    /\ accounts \in SampleAccounts
    /\ filters \in SampleFilters
    /\ transactions = <<>>
    /\ reports = <<>>
    /\ summary = EmptySummary
    /\ reportsLoading = FALSE
    /\ reportsError = ""
    /\ effects = 1
    /\ generations = <<>>

NextGenerate ==
    \/ RunEffect
    \/ \E i \in 1..MaxGenerations : GenerateResolve(i)
    \/ \E i \in 1..MaxGenerations : GenerateReject(i)

SpecGenerate == InitGenerate /\ [][NextGenerate]_vars

\* ------------------------------------------------------------------------
\* Specification of the Accounts page with its AddAccountModal
\* ------------------------------------------------------------------------
FormIdle ==
    /\ open = FALSE
    /\ editTransaction = Null
    /\ date = Today
    /\ details = <<BlankRow>>
    /\ pending = <<>>
    /\ formAccounts = <<>>
    /\ loading = FALSE
    /\ error = <<>>
    /\ inits = <<>>
    /\ inflight = <<>>
    /\ sent = <<>>
    /\ stored = <<RentTransaction>>

\* The page as mounted: its first loadAccounts() is in flight.
InitAccount ==
    /\ ReportsIdle
    /\ FormIdle
    /\ accountModal = AccountModalMounted
    /\ accountsPage = AccountsPageMounted
    /\ transactionsPage = [TransactionsPageMounted EXCEPT !.loading = FALSE]
    /\ dashboard = DashboardMounted
    /\ calls = <<Call("accountAPI.getAll", "")>>
    /\ serverAccounts = SavedAccounts

AccountFields == {"name", "type"} \cup OptionalFields

NextAccount ==
    \/ \E account \in {NullAccount} \cup {accountsPage.accounts[k] :
                                            k \in 1..Len(accountsPage.accounts)} :
           OpenAccountModal(account)
    \/ CloseAccountModal
    \/ \E i \in 1..Len(calls) : LoadAccountTypesResolve(i)
    \/ \E i \in 1..Len(calls) : LoadAccountTypesReject(i)
    \/ \E field \in AccountFields : \E value \in FieldInputs(field) :
           handleInputChange(field, value)
    \/ AccountSubmit
    \/ \E i \in 1..Len(calls) : AccountSaveResolve(i)
    \/ \E i \in 1..Len(calls), message \in ResponseMessages : AccountSaveReject(i, message)
    \/ \E i \in 1..Len(calls) : LoadAccountsResolve(i)
    \/ \E i \in 1..Len(calls) : LoadAccountsReject(i)

SpecAccount == InitAccount /\ [][NextAccount]_vars

\* The registry: the page lists the accounts, refreshes and deletes them.
NextRegistry ==
    \/ RefreshAccounts
    \/ \E i \in 1..Len(calls) : LoadAccountsResolve(i)
    \/ \E i \in 1..Len(calls) : LoadAccountsReject(i)
    \/ \E account \in {accountsPage.accounts[k] : k \in 1..Len(accountsPage.accounts)} :
           AccountDeleteClick(account)
    \/ AccountDeleteDialogClose
    \/ AccountDeleteConfirm
    \/ \E i \in 1..Len(calls) : AccountDeleteResolve(i)
    \/ \E i \in 1..Len(calls), message \in ResponseMessages : AccountDeleteReject(i, message)

SpecRegistry == InitAccount /\ [][NextRegistry]_vars

\* ------------------------------------------------------------------------
\* Specification of the Transactions page
\* ------------------------------------------------------------------------
\* what the server holds when the page is mounted
StoredAtFirst ==
    <<RentTransaction,
      Transaction(2, "2024-01-06",
         <<Line(JsString("A"), "fee", DoubleOf("0.1"), "credit"),
           Line(JsString("B"), "fee", DoubleOf("0.1"), "debit")>>),
      Transaction(3, "2024-01-04",
         <<Line(JsString("A"), "fee", DoubleOf("0.2"), "credit"),
           Line(JsObject(AccountB), "fee", DoubleOf("0.2"), "debit")>>)>>

\* The page as mounted: its first loadTransactions() is in flight.
InitTransactions ==
    /\ ReportsIdle
    /\ open = FALSE
    /\ editTransaction = Null
    /\ date = Today
    /\ details = <<BlankRow>>
    /\ pending = <<>>
    /\ formAccounts = <<>>
    /\ loading = FALSE
    /\ error = <<>>
    /\ inits = <<>>
    /\ inflight = <<>>
    /\ sent = <<>>
    /\ stored = StoredAtFirst
    /\ accountModal = AccountModalMounted
    /\ accountsPage = [AccountsPageMounted EXCEPT !.loading = FALSE]
    /\ transactionsPage = TransactionsPageMounted
    /\ dashboard = DashboardMounted
    /\ calls = <<Call("transactionAPI.getAll", "")>>
    /\ serverAccounts = SavedAccounts

NextTransactions ==
    \/ RefreshTransactions
    \/ \E i \in 1..Len(calls) : TransactionsLoadResolve(i)
    \/ \E i \in 1..Len(calls) : TransactionsLoadReject(i)
    \/ \E k \in 1..Len(transactionsPage.transactions) :
           TransactionDeleteClick(transactionsPage.transactions[k])
    \/ TransactionDeleteDialogClose
    \/ TransactionDeleteConfirm
    \/ \E i \in 1..Len(calls) : TransactionDeleteResolve(i)
    \/ \E i \in 1..Len(calls), message \in ResponseMessages :
           TransactionDeleteReject(i, message)

SpecTransactions == InitTransactions /\ [][NextTransactions]_vars

\* The edit form of the Transactions page, closed, the list loaded: the user
\* opens it on a transaction and closes it, again and again, while the
\* account fetches of the inits are answered in any order.
InitOpen ==
    /\ ReportsIdle
    /\ open = FALSE
    /\ editTransaction = Null
    /\ date = Today
    /\ details = <<BlankRow>>
    /\ pending = <<>>
    /\ formAccounts = <<>>
    /\ loading = FALSE
    /\ error = <<>>
    /\ inits = <<>>
    /\ inflight = <<>>
    /\ sent = <<>>
    /\ stored = StoredAtFirst
    /\ accountModal = AccountModalMounted
    /\ accountsPage = [AccountsPageMounted EXCEPT !.loading = FALSE]
    /\ transactionsPage = [TransactionsPageMounted EXCEPT !.transactions = StoredAtFirst,
                                                          !.loading = FALSE]
    /\ dashboard = DashboardMounted
    /\ calls = <<>>
    /\ serverAccounts = SavedAccounts

NextOpen ==
    \/ \E k \in 1..Len(transactionsPage.transactions) :
           OpenModal(transactionsPage.transactions[k])
    \/ CloseModal
    \/ \E i \in 1..MaxInits, loaded \in BOOLEAN : InitResume(i, loaded)
    \/ Render

SpecOpen == InitOpen /\ [][NextOpen]_vars

\* ------------------------------------------------------------------------
\* Specification of the Dashboard
\* ------------------------------------------------------------------------
\* The Dashboard as mounted, its loadDashboardData() in flight, beside a
\* Transactions page (in another window) whose deletes change what the
\* server counts.
InitDashboard ==
    /\ ReportsIdle
    /\ open = FALSE
    /\ editTransaction = Null
    /\ date = Today
    /\ details = <<BlankRow>>
    /\ pending = <<>>
    /\ formAccounts = <<>>
    /\ loading = FALSE
    /\ error = <<>>
    /\ inits = <<>>
    /\ inflight = <<>>
    /\ sent = <<>>
    /\ stored = StoredAtFirst
    /\ accountModal = AccountModalMounted
    /\ accountsPage = [AccountsPageMounted EXCEPT !.loading = FALSE]
    /\ transactionsPage = TransactionsPageMounted
    /\ dashboard = DashboardMounted
    /\ calls = <<Call("dashboardAPI.getStats", ""), Call("transactionAPI.getAll", "")>>
    /\ serverAccounts = SavedAccounts

NextDashboard ==
    \/ \E i \in 1..Len(calls) : LoadDashboardResolve(i)
    \/ \E i \in 1..Len(calls) : LoadDashboardReject(i)
    \/ NextTransactions

SpecDashboard == InitDashboard /\ [][NextDashboard]_vars

\* The Reports page as mounted: both effects have run, loadAccounts() is in
\* flight and the [accounts, filters] effect found no accounts.
InitReports ==
    /\ open = FALSE
    /\ editTransaction = Null
    /\ date = Today
    /\ details = <<BlankRow>>
    /\ pending = <<>>
    /\ formAccounts = <<>>
    /\ loading = FALSE
    /\ error = <<>>
    /\ inits = <<>>
    /\ inflight = <<>>
    /\ sent = <<>>
    /\ stored \in {StoredAtFirst, <<RentTransaction>>, <<>>}
    /\ accountModal = AccountModalMounted
    /\ accountsPage = [AccountsPageMounted EXCEPT !.loading = FALSE]
    /\ transactionsPage = [TransactionsPageMounted EXCEPT !.loading = FALSE]
    /\ dashboard = DashboardMounted
    /\ calls = <<Call("accountAPI.getAll", "Reports")>>
    /\ serverAccounts = SavedAccounts
    /\ accounts = <<>>
    /\ filters = Filters("", FALSE)
    /\ transactions = <<>>
    /\ reports = <<>>
    /\ summary = EmptySummary
    /\ reportsLoading = FALSE
    /\ reportsError = ""
    /\ effects = 0
    /\ generations = <<>>

NextReports ==
    \/ \E i \in 1..Len(calls) : ReportsLoadAccountsResolve(i)
    \/ \E i \in 1..Len(calls) : ReportsLoadAccountsReject(i)
    \/ \E value \in {""} \cup {accounts[k].id : k \in 1..Len(accounts)} :
           handleFilterChange("selectedAccount", value)
    \/ \E value \in BOOLEAN : handleFilterChange("ownerAccountsOnly", value)
    \/ DateFilterChange
    \/ resetFilters
    \/ GenerateClick
    \/ RunEffect
    \/ \E i \in 1..Len(generations) : GenerateResolve(i)
    \/ \E i \in 1..Len(generations) : GenerateReject(i)

SpecReports == InitReports /\ [][NextReports]_vars

\* ------------------------------------------------------------------------
\* Specification of the busy flags, with the requests completing
\* ------------------------------------------------------------------------
\* Either the Transactions page is shown, loaded, with the form open on two
\* rows filled in, or the Reports page is shown, just mounted, with its
\* loadAccounts() in flight.
InitBusy ==
    /\ date = Today
    /\ pending = <<>>
    /\ loading = FALSE
    /\ error = <<>>
    /\ inits = <<>>
    /\ inflight = <<>>
    /\ sent = <<>>
    /\ stored = <<RentTransaction>>
    /\ editTransaction = Null
    /\ accountModal = AccountModalMounted
    /\ accountsPage = [AccountsPageMounted EXCEPT !.loading = FALSE]
    /\ dashboard = DashboardMounted
    /\ serverAccounts = SavedAccounts
    /\ ReportsIdle
    /\ \/ /\ open = TRUE
          /\ details = Numbered(
                <<[account |-> "A", description |-> " x ", amountStr |-> "100",
                   type |-> "credit"],
                  [account |-> "B", description |-> " y ", amountStr |-> "100",
                   type |-> "debit"]>>)
          /\ formAccounts = ServerAccounts
          /\ transactionsPage = [TransactionsPageMounted EXCEPT
                                     !.transactions = <<RentTransaction>>,
                                     !.loading = FALSE]
          /\ calls = <<>>
       \/ /\ open = FALSE
          /\ details = <<BlankRow>>
          /\ formAccounts = <<>>
          /\ transactionsPage = [TransactionsPageMounted EXCEPT !.loading = FALSE]
          /\ calls = <<Call("accountAPI.getAll", "Reports")>>

\* the answers to the requests
CreateAnswered == \E i \in 1..Len(inflight) : CreateResolve(i) \/ CreateReject(i)

TransactionsLoadAnswered ==
    \E i \in 1..Len(calls) : TransactionsLoadResolve(i) \/ TransactionsLoadReject(i)

TransactionDeleteAnswered ==
    \E i \in 1..Len(calls) :
        \/ TransactionDeleteResolve(i)
        \/ \E message \in ResponseMessages : TransactionDeleteReject(i, message)

GenerateAnswered == \E i \in 1..Len(generations) : GenerateReject(i) \/ GenerateResolve(i)

NextBusy ==
    \/ handleSubmit
    \/ CloseModal
    \/ CreateAnswered
    \/ RefreshTransactions
    \/ TransactionsLoadAnswered
    \/ \E k \in 1..Len(transactionsPage.transactions) :
           TransactionDeleteClick(transactionsPage.transactions[k])
    \/ TransactionDeleteDialogClose
    \/ TransactionDeleteConfirm
    \/ TransactionDeleteAnswered
    \/ \E i \in 1..Len(calls) : ReportsLoadAccountsResolve(i)
    \/ \E i \in 1..Len(calls) : ReportsLoadAccountsReject(i)
    \/ GenerateClick
    \/ RunEffect
    \/ GenerateAnswered

\* every request is answered, with success or with failure
SpecBusy ==
    /\ InitBusy
    /\ [][NextBusy]_vars
    /\ WF_vars(CreateAnswered)
    /\ WF_vars(TransactionsLoadAnswered)
    /\ WF_vars(TransactionDeleteAnswered)
    /\ WF_vars(GenerateAnswered)

\* ------------------------------------------------------------------------
\* Properties
\* ------------------------------------------------------------------------
Range(seq) == {seq[i] : i \in 1..Len(seq)}

Count(seq, x) == Cardinality({i \in 1..Len(seq) : seq[i] = x})

\* a + b without rounding: the sum of the two numbers as real numbers
ExactAdd(a, b) ==
    IF a.neg = b.neg
    THEN [MagAdd(a, b) EXCEPT !.neg = a.neg /\ ~(IsZero(a) /\ IsZero(b))]
    ELSE IF MagLess(a, b) THEN [MagSub(b, a) EXCEPT !.neg = b.neg]
         ELSE IF MagLess(b, a) THEN [MagSub(a, b) EXCEPT !.neg = a.neg]
              ELSE Zero

\* sum(amounts of one side) of a sequence of lines, as a real number
RECURSIVE ExactSide(_, _, _)
ExactSide(lines, side, n) ==
    IF n = 0 THEN Zero
    ELSE IF lines[n].type = side
         THEN ExactAdd(ExactSide(lines, side, n - 1), lines[n].amount)
         ELSE ExactSide(lines, side, n - 1)

\* |sum(credit amounts) - sum(debit amounts)|
ExactDifference(lines) ==
    LET credits == ExactSide(lines, "credit", Len(lines))
        debits == ExactSide(lines, "debit", Len(lines))
    IN  FAbs(ExactAdd(credits, FNeg(debits)))

\* |sum(credit amounts) - sum(debit amounts)| > 0.01
Imbalanced(lines) == MagLess(DoubleOf("0.01"), ExactDifference(lines))

\* the rows of the form as lines: the amount a row stands for
LinesOf(rows) ==
    [i \in 1..Len(rows) |->
        Line(rows[i].account, rows[i].description, toNumber(rows[i].amountStr),
             rows[i].type)]

NoAccount(row) == row.account = ""
NoDescription(row) == \A c \in {"x", "y", "rent"} : Trim(row.description) # c
NoAmount(row) == ~(ParseFloat(row.amountStr).kind = "finite"
                   /\ FLess(Zero, ParseFloat(row.amountStr).val))
InvalidRow(row) == NoAccount(row) \/ NoDescription(row) \/ NoAmount(row)

AccountRequired(i) == Message("Row ${index + 1}: Account is required", <<i>>)
DescriptionRequired(i) == Message("Row ${index + 1}: Description is required", <<i>>)
AmountRequired(i) == Message("Row ${index + 1}: Amount must be greater than 0", <<i>>)

IsRowMessage(m) == \E i \in 1..(MaxLines + 1) :
    m \in {AccountRequired(i), DescriptionRequired(i), AmountRequired(i)}

\* In SpecValidate the form starts open and untouched: handleSubmit has run
\* once something differs from that.
Submitted == error # <<>> \/ sent # <<>> \/ ~open

\* handleSubmit has run and validation refused the rows
Refused == Submitted /\ sent = <<>> /\ open

NothingCreated == sent = <<>> /\ inflight = <<>> /\ stored = <<RentTransaction>>

\* C1: a create request is issued only for rows whose credit and debit totals
\* differ by at most 0.01; when they differ by more, the submit is refused with
\* an error list holding the balance message, and no create request is issued.
C1_BalanceGate ==
    /\ \A k \in 1..Len(sent) : ~Imbalanced(sent[k].details)
    /\ Imbalanced(LinesOf(details)) => NothingCreated
    /\ (Imbalanced(LinesOf(details)) /\ Submitted) =>
           (open /\ BalanceMessage \in Range(error))

\* two filled-in rows 100 against 90: refused for the imbalance alone
C1_Witness ==
    /\ Len(details) = 2
    /\ Imbalanced(LinesOf(details))
    /\ \A i \in 1..Len(details) : ~InvalidRow(details[i])
    /\ error = <<BalanceMessage>>

\* C2: when some row has no account, a description that is empty after trim
\* or an amount that is not positive, the submit is refused, every such row
\* is named by a message of the error list, no row that is filled in is, and
\* nothing is sent or stored.
C2_InvalidRowsRefused ==
    LET bad == {i \in 1..Len(details) : InvalidRow(details[i])}
        named == {i \in 1..Len(details) :
                    \E k \in 1..Len(error) : IsRowMessage(error[k]) /\ error[k].args = <<i>>}
    IN  bad # {} =>
            /\ NothingCreated
            /\ Submitted => (open /\ named = bad)

\* a balanced pair whose second description is blanks only: one message
C2_Witness ==
    /\ Len(details) = 2
    /\ details[2].description = " "
    /\ ~NoAccount(details[2]) /\ ~NoAmount(details[2])
    /\ ~InvalidRow(details[1])
    /\ ~Imbalanced(LinesOf(details))
    /\ error = <<DescriptionRequired(2)>>

HundredAgainstNinety ==
    /\ Len(details) = 2
    /\ details[1].account = "A" /\ Trim(details[1].description) = "x"
    /\ details[1].amountStr = "100" /\ details[1].type = "credit"
    /\ details[2].account = "B" /\ Trim(details[2].description) = "y"
    /\ details[2].amountStr = "90" /\ details[2].type = "debit"

\* C4, as claimed: an imbalance is reported by one aggregate message that
\* names both totals.
C4_NamesBothTotals ==
    (Refused /\ Imbalanced(LinesOf(details))) =>
        \E k \in 1..Len(error) :
            /\ ~IsRowMessage(error[k])
            /\ \E i, j \in 1..Len(error[k].args) :
                  /\ error[k].args[i] = getTotals(details).totalCredits
                  /\ error[k].args[j] = getTotals(details).totalDebits

\* C4, amended: an imbalance is reported by exactly one aggregate message,
\* the fixed text "Total debits must equal total credits", in which no number
\* is interpolated; for 100 against 90 it is the only message; nothing is
\* sent or stored.
C4_SingleFixedMessage ==
    /\ (Refused /\ Imbalanced(LinesOf(details))) =>
          /\ Count(error, BalanceMessage) = 1
          /\ \A k \in 1..Len(error) : ~IsRowMessage(error[k]) => error[k] = BalanceMessage
          /\ BalanceMessage.args = <<>>
          /\ NothingCreated
    /\ (Submitted /\ HundredAgainstNinety) => (error = <<BalanceMessage>> /\ Refused)

C4_Witness == HundredAgainstNinety /\ error = <<BalanceMessage>> /\ NothingCreated

\* C5, as claimed: the serial numbers of the rows are 1..N in row order.
C5_DenseSerials == \A i \in 1..Len(details) : details[i].serialNo = i

\* C6: the form always shows at least one row, and every create request
\* carries at least one line.
C6_AtLeastOneRow ==
    /\ Len(details) >= 1
    /\ \A k \in 1..Len(sent) : Len(sent[k].details) >= 1

\* two rows shown and both delete buttons clicked before React renders: the
\* second removal meets a list of one row
C6_Witness ==
    /\ Len(details) = 2
    /\ Len(pending) = 2
    /\ pending[1].op = "remove" /\ pending[2].op = "remove"

\* generateReports has run to its end without an error
Generated == effects = 0 /\ generations = <<>> /\ reportsError = ""

\* the account passes the filter: the selected one when an account is
\* selected, else an owner account when only those are asked for
Survives(account, f) ==
    IF f.selectedAccount # ""
    THEN account.id = f.selectedAccount
    ELSE f.ownerAccountsOnly => account.isOwnerAccount

HasLine(account, allTransactions) ==
    \E t \in 1..Len(allTransactions) :
        \E d \in 1..Len(allTransactions[t].details) :
            AccountNameOf(allTransactions[t].details[d]) = account.name

Reported(account) == \E r \in 1..Len(reports) : reports[r].account = account

\* C7: an account has a report exactly when it passes the filter and some
\* line of some transaction resolves to its name; the reports are of accounts
\* of the list, one each.
C7_ReportIffMatchingLine ==
    Generated =>
        /\ \A a \in Range(accounts) :
              Reported(a) <=> (Survives(a, filters) /\ HasLine(a, transactions))
        /\ \A r \in 1..Len(reports) : reports[r].account \in Range(accounts)
        /\ \A q, r \in 1..Len(reports) : reports[q].account = reports[r].account => q = r
        /\ summary.totalAccounts = Len(reports)

\* no filter, C in the list without any line, A with lines: A is reported
\* and C is not
C7_Witness ==
    /\ Generated
    /\ filters = Filters("", FALSE)
    /\ AccountC \in Range(accounts)
    /\ ~HasLine(AccountC, transactions)
    /\ ~Reported(AccountC)
    /\ Reported(AccountA)

Orderings(n) == {p \in [1..n -> 1..n] : \A i, j \in 1..n : p[i] = p[j] => i = j}

SameTotals(one, other) ==
    /\ Len(one.reports) = Len(other.reports)
    /\ \A r \in 1..Len(one.reports) :
          /\ one.reports[r].account = other.reports[r].account
          /\ one.reports[r].totalCredit = other.reports[r].totalCredit
          /\ one.reports[r].totalDebit = other.reports[r].totalDebit
          /\ one.reports[r].netAmount = other.reports[r].netAmount
    /\ one.summary = other.summary

\* C8, as claimed: the totals and net of every account and the summary are
\* the same for every order of the fetched transactions.
C8_OrderIndependent ==
    Generated =>
        \A p \in Orderings(Len(transactions)) :
            SameTotals([reports |-> reports, summary |-> summary],
                       Generate(accounts, filters,
                                [i \in 1..Len(transactions) |-> transactions[p[i]]]))

\* C9: with an account selected there is at most one report, it is of the
\* account with the selected id, and the reports and the summary are what
\* they are with ownerAccountsOnly the other way.
C9_SelectedAccountFirst ==
    (Generated /\ filters.selectedAccount # "") =>
        /\ Len(reports) <= 1
        /\ \A r \in 1..Len(reports) : reports[r].account.id = filters.selectedAccount
        /\ LET other == Generate(accounts,
                                 [filters EXCEPT !.ownerAccountsOnly = ~filters.ownerAccountsOnly],
                                 transactions)
           IN  reports = other.reports /\ summary = other.summary

\* B, not an owner account, selected with ownerAccountsOnly set: B is reported
C9_Witness ==
    /\ Generated
    /\ filters = Filters("b1", TRUE)
    /\ Len(reports) = 1
    /\ reports[1].account = AccountB

OwnerLine(detail) ==
    \E a \in Range(accounts) : a.isOwnerAccount /\ a.name = AccountNameOf(detail)

\* the transactions without the lines of accounts that are not owner accounts
OwnerLinesOnly(allTransactions) ==
    [t \in 1..Len(allTransactions) |->
        [allTransactions[t] EXCEPT !.details = SelectSeq(@, OwnerLine)]]

RentExample ==
    /\ accounts = <<AccountA, AccountB>>
    /\ transactions = <<RentTransaction>>
    /\ filters = Filters("", TRUE)

\* C10: with ownerAccountsOnly set and no account selected every report is of
\* an owner account, and the summary is the summary of the same transactions
\* without the lines of the other accounts. For A (owner), B and the rent
\* transaction there is one report, A with 500 / 0 / 500, and the summary is
\* 500 / 0.
C10_OwnerAccountsOnly ==
    (Generated /\ filters.ownerAccountsOnly /\ filters.selectedAccount = "") =>
        /\ \A r \in 1..Len(reports) : reports[r].account.isOwnerAccount
        /\ summary = Generate(accounts, Filters("", FALSE),
                              OwnerLinesOnly(transactions)).summary
        /\ RentExample =>
              /\ Len(reports) = 1
              /\ reports[1].account = AccountA
              /\ reports[1].totalCredit = DoubleOf("500")
              /\ reports[1].totalDebit = Zero
              /\ reports[1].netAmount = DoubleOf("500")
              /\ summary.totalAccounts = 1
              /\ summary.totalCredit = DoubleOf("500")
              /\ summary.totalDebit = Zero

C10_Witness ==
    /\ Generated
    /\ RentExample
    /\ Len(reports) = 1
    /\ summary.totalCredit = DoubleOf("500")
    /\ summary.totalDebit = Zero

\* the lines of the fetched transactions that resolve to the account's name,
\* each as <<position of the transaction, position of the line>>
MatchedLines(account) ==
    UNION {{<<t, d>> : d \in {e \in 1..Len(transactions[t].details) :
                                  AccountNameOf(transactions[t].details[e]) = account.name}}
           : t \in 1..Len(transactions)}

\* p comes before q: later date first, then scan order
ListedBefore(p, q) ==
    \/ GetTime(transactions[p[1]].date) > GetTime(transactions[q[1]].date)
    \/ /\ GetTime(transactions[p[1]].date) = GetTime(transactions[q[1]].date)
       /\ (p[1] < q[1] \/ (p[1] = q[1] /\ p[2] < q[2]))

RECURSIVE InListedOrder(_)
InListedOrder(lines) ==
    IF lines = {} THEN <<>>
    ELSE LET first == CHOOSE p \in lines : \A q \in lines \ {p} : ListedBefore(p, q)
         IN  <<first>> \o InListedOrder(lines \ {first})

\* C11: the entries of every report are its account's matched lines ordered
\* by transaction date, latest first, lines of equal date in the order in
\* which their transactions, and the lines within a transaction, were scanned.
C11_DateDescendingStable ==
    Generated =>
        \A r \in 1..Len(reports) :
            LET listed == InListedOrder(MatchedLines(reports[r].account))
            IN  reports[r].transactions =
                    [i \in 1..Len(listed) |->
                        Entry(transactions[listed[i][1]],
                              transactions[listed[i][1]].details[listed[i][2]])]

\* a report whose first two entries are of two transactions of one date,
\* listed after a transaction of an earlier date was scanned first
C11_Witness ==
    /\ Generated
    /\ \E r \in 1..Len(reports) :
          /\ Len(reports[r].transactions) >= 3
          /\ reports[r].transactions[1].transaction.date =
                 reports[r].transactions[2].transaction.date
          /\ reports[r].transactions[1].transaction.id #
                 reports[r].transactions[2].transaction.id
          /\ \E t \in 1..Len(transactions) :
                /\ transactions[t] = reports[r].transactions[3].transaction
                /\ \A u \in 1..Len(transactions) :
                      transactions[u] = reports[r].transactions[1].transaction => t < u

RECURSIVE SumOfReports(_, _, _)
SumOfReports(list, field, n) ==
    IF n = 0 THEN Zero
    ELSE FAdd(SumOfReports(list, field, n - 1), list[n][field])

\* C12, as claimed: the summary counts the reports, its totals are the sums
\* of the reports' totals, and its net is its credit total less its debit total.
C12_SummaryOfReports ==
    Generated =>
        /\ summary.totalAccounts = Len(reports)
        /\ summary.totalCredit = SumOfReports(reports, "totalCredit", Len(reports))
        /\ summary.totalDebit = SumOfReports(reports, "totalDebit", Len(reports))
        /\ summary.netAmount = FSub(summary.totalCredit, summary.totalDebit)

\* the line's stored name is the name of an account of the list
NamesListedAccount(detail) == \E a \in Range(accounts) : a.name = AccountNameOf(detail)

\* the transactions without the lines whose stored name is no account's name
NamedLinesOnly(allTransactions) ==
    [t \in 1..Len(allTransactions) |->
        [allTransactions[t] EXCEPT !.details = SelectSeq(@, NamesListedAccount)]]

\* C21: a report holds exactly the lines whose stored name (the string, or
\* the name of the embedded account) equals its account's name, whatever the
\* id of an embedded account; an account that passes the filter and is named
\* by a line is reported; the lines naming no account of the list change
\* neither the reports nor the summary.
C21_JoinedByName ==
    Generated =>
        /\ \A r \in 1..Len(reports) :
              /\ Len(reports[r].transactions) = Cardinality(MatchedLines(reports[r].account))
              /\ \A e \in 1..Len(reports[r].transactions) :
                    \E p \in MatchedLines(reports[r].account) :
                        reports[r].transactions[e] =
                            Entry(transactions[p[1]], transactions[p[1]].details[p[2]])
        /\ \A a \in Range(accounts) :
              (Survives(a, filters) /\ MatchedLines(a) # {}) => Reported(a)
        /\ LET named == Generate(accounts, filters, NamedLinesOnly(transactions))
           IN  /\ summary = named.summary
               /\ Len(reports) = Len(named.reports)
               /\ \A r \in 1..Len(reports) :
                     /\ reports[r].account = named.reports[r].account
                     /\ reports[r].totalCredit = named.reports[r].totalCredit
                     /\ reports[r].totalDebit = named.reports[r].totalDebit

\* account a1 is now named "A2": the line that embeds it under its old name
\* "A" is in no report, the line that embeds B is in B's
C21_Witness ==
    /\ Generated
    /\ accounts = <<AccountARenamed, AccountB>>
    /\ filters = Filters("", FALSE)
    /\ \E t \in 1..Len(transactions) : transactions[t].id = 4
    /\ \E t \in 1..Len(transactions) : transactions[t].id = 3
    /\ ~Reported(AccountARenamed)
    /\ Reported(AccountB)

\* ------------------------------------------------------------------------
\* Accounts
\* ------------------------------------------------------------------------
SaveCalls == {i \in 1..Len(calls) : calls[i].api \in {"accountAPI.create", "accountAPI.update"}}

KnownTypeName(name) == \E i \in 1..Len(ServerAccountTypes) : ServerAccountTypes[i].name = name

\* the form cannot be saved: no name but blanks, or no type
Unsavable(formData) == Trim(formData.name) = "" \/ ~KnownTypeName(formData.type)

AccountValidationErrors == {"Account name is required", "Account type is required"}

\* C13: every create and update request carries a name that is not empty and
\* the name of a known account type; a submit of a form whose name is empty
\* after trim, or whose type is not such a name, sets a validation error and
\* issues no request.
C13_AccountGate ==
    /\ [](\A i \in SaveCalls : /\ calls[i].arg.data.name # ""
                               /\ Trim(calls[i].arg.data.name) = calls[i].arg.data.name
                               /\ KnownTypeName(calls[i].arg.data.type))
    /\ [][(AccountSubmit /\ Unsavable(accountModal.formData)) =>
             /\ calls' = calls
             /\ accountModal'.error \in AccountValidationErrors
             /\ ~accountModal'.loading]_vars

\* a name of blanks with a type chosen was submitted and refused
C13_Witness ==
    /\ accountModal.open
    /\ accountModal.formData.name = " "
    /\ accountModal.formData.type = "Bank"
    /\ accountModal.error = "Account name is required"
    /\ SaveCalls = {}
    /\ serverAccounts = SavedAccounts

\* ------------------------------------------------------------------------
\* Transactions page
\* ------------------------------------------------------------------------
DeleteCalls(list) == {i \in 1..Len(list) : list[i].api = "transactionAPI.delete"}

DeleteErrors == {Surfaced(message, "Failed to delete transaction") : message \in ResponseMessages}

Without(list, id) == SelectSeq(list, LAMBDA t : t.id # id)

\* the delete request calls[i] is answered in this step with a failure shown
\* on the page: nothing is removed, the page's list stays, and no request is
\* issued in its place
DeleteFailed(i) ==
    /\ stored' = stored
    /\ transactionsPage'.error \in DeleteErrors
    /\ transactionsPage'.transactions = transactionsPage.transactions
    /\ calls' = RemoveAt(calls, i)

\* C14: a delete request for an id the server does not hold fails: the error
\* is shown, nothing is removed, the page's list is unchanged and the request
\* is not issued again. A delete request for an id it holds either fails the
\* same way or removes the transaction of that id and no other.
C14_DeleteById ==
    [][\A i \in DeleteCalls(calls) :
          DeleteCalls(calls') = {} =>
             IF IsTransactionId(calls[i].arg)
             THEN \/ DeleteFailed(i)
                  \/ /\ stored' = Without(stored, calls[i].arg)
                     /\ Len(stored') = Len(stored) - 1
             ELSE DeleteFailed(i)]_vars

\* the page still lists a transaction deleted before (its reload failed); the
\* delete of it, confirmed again, has failed
C14_Witness ==
    /\ transactionsPage.selectedTransaction # Null
    /\ ~IsTransactionId(transactionsPage.selectedTransaction.id)
    /\ transactionsPage.error \in DeleteErrors
    /\ ~transactionsPage.deleteLoading
    /\ DeleteCalls(calls) = {}
    /\ Len(stored) = 2

\* ------------------------------------------------------------------------
\* Accounts page
\* ------------------------------------------------------------------------
NamesAccount(transaction, name) ==
    \E k \in 1..Len(transaction.details) : AccountNameOf(transaction.details[k]) = name

IsAccountName(name) == \E k \in 1..Len(serverAccounts) : serverAccounts[k].name = name

\* C15: deleting an account issues the account delete request alone (the page
\* then reads the accounts again); no step of the Accounts page changes a
\* stored transaction or a line of one, the account's name on it included.
C15_PureRegistry ==
    /\ [](\A i \in 1..Len(calls) : calls[i].api \in {"accountAPI.delete", "accountAPI.getAll"})
    /\ [](stored = <<RentTransaction>>)
    /\ [][\A i \in 1..Len(calls') :
             (calls'[i].api = "accountAPI.delete" /\ calls'[i] \notin Range(calls)) =>
                /\ calls' = Append(calls, calls'[i])
                /\ calls'[i].arg = accountsPage.selectedAccount.id]_vars

\* account A is gone from the registry, and the stored transaction names it still
C15_Witness ==
    /\ ~IsAccountName("A")
    /\ IsAccountName("B")
    /\ Len(stored) = 1
    /\ NamesAccount(stored[1], "A")
    /\ ~accountsPage.loading
    /\ accountsPage.accounts = serverAccounts

\* ------------------------------------------------------------------------
\* Submit and commit
\* ------------------------------------------------------------------------
\* the request body that carries the rows as validated: as many lines, in the
\* rows' order, each with its row's account and side, the description trimmed
\* and the amount parsed
CarriesRows(data, d, rows) ==
    /\ data.date = d
    /\ Len(data.details) = Len(rows)
    /\ \A i \in 1..Len(rows) :
          /\ data.details[i].account = rows[i].account
          /\ data.details[i].type = rows[i].type
          /\ data.details[i].description = Trim(rows[i].description)
          /\ data.details[i].amount = toNumber(rows[i].amountStr)

CallsIn(list, api) == Cardinality({i \in 1..Len(list) : list[i].api = api})

\* a request of this kind is answered in this step
Answered(api) == CallsIn(calls', api) < CallsIn(calls, api)

\* C17: a request that fails surfaces an error and commits nothing: a load
\* of the transactions that did not bring the server's list shows 'Failed to
\* load transactions', a delete that removed nothing shows its error, and a
\* load of the dashboard statistics that did not bring the server's counts
\* changes what the Dashboard shows.
C17_FailureSurfaced ==
    [][/\ (Answered("transactionAPI.getAll") /\ transactionsPage'.transactions # stored) =>
             transactionsPage'.error = "Failed to load transactions"
       /\ (Answered("transactionAPI.delete") /\ stored' = stored) =>
             transactionsPage'.error \in DeleteErrors
       /\ (Answered("dashboardAPI.getStats") /\ dashboard'.stats # ServerStats) =>
             dashboard' # dashboard]_vars

\* ------------------------------------------------------------------------
\* Edit mode
\* ------------------------------------------------------------------------
\* C18: the form submitted in edit mode with rows that pass validation closes
\* and has the page read its list again; it issues no create, update or
\* delete request, and the stored transactions stay as they are.
C18_EditIsNoOp ==
    /\ [](editTransaction # Null => (sent = <<>> /\ inflight = <<>>))
    /\ [][(editTransaction # Null /\ open /\ ~open') =>
             /\ validateTransaction(details) = <<>>
             /\ sent' = sent
             /\ inflight' = inflight
             /\ stored' = stored
             /\ calls' = Append(calls, Call("transactionAPI.getAll", ""))]_vars

\* the edit of the rent transaction, with two balanced rows, was submitted
C18_Witness ==
    /\ ~open
    /\ transactionsPage.loading
    /\ Len(details) = 2
    /\ validateTransaction(details) = <<>>
    /\ sent = <<>>
    /\ stored = <<RentTransaction>>

\* ------------------------------------------------------------------------
\* Account payload
\* ------------------------------------------------------------------------
\* the payload made of the form: the name trimmed; each optional field trimmed
\* when that leaves something, and left out when it leaves nothing
PayloadOf(data, formData) ==
    /\ data.name = Trim(formData.name)
    /\ \A f \in {"accountNo", "branch", "address", "contact"} :
          IF Trim(formData[f]) = ""
          THEN f \notin DOMAIN data
          ELSE f \in DOMAIN data /\ data[f] = Trim(formData[f])

\* C19: the payload of every create and update request holds the name
\* trimmed and each of accountNo, branch, address and contact trimmed, an
\* optional field that is empty after trim being left out of it.
C19_TrimmedPayload ==
    [][\A i \in 1..Len(calls') :
          (calls'[i].api \in {"accountAPI.create", "accountAPI.update"}
              /\ Len(calls') = Len(calls) + 1 /\ i = Len(calls')) =>
             PayloadOf(calls'[i].arg.data, accountModal.formData)]_vars

\* a request in flight made of a form with blanks typed around and for values
C19_Witness ==
    \E i \in SaveCalls :
       /\ accountModal.formData.name = " x "
       /\ accountModal.formData.branch = " y "
       /\ accountModal.formData.address = " "
       /\ accountModal.formData.contact = ""
       /\ DOMAIN calls[i].arg.data = {"name", "type", "isOwnerAccount", "branch"}
       /\ calls[i].arg.data.name = "x"
       /\ calls[i].arg.data.branch = "y"

\* ------------------------------------------------------------------------
\* Amounts
\* ------------------------------------------------------------------------
\* C20: a submitted row whose amount text is no finite number above zero is
\* reported with 'Amount must be greater than 0' under its row number, and
\* nothing is created; every amount of a create request is a finite number
\* above zero, the one parsed from its row's amount text.
C20_AmountsChecked ==
    /\ \A k \in 1..Len(sent) : Len(sent[k].details) = Len(details)
    /\ \A k \in 1..Len(sent) : \A i \in 1..Len(sent[k].details) :
          /\ FLess(Zero, sent[k].details[i].amount)
          /\ ParseFloat(details[i].amountStr).kind = "finite"
          /\ sent[k].details[i].amount = ParseFloat(details[i].amountStr).val
    /\ (\E i \in 1..Len(details) : NoAmount(details[i])) => NothingCreated
    /\ Submitted =>
          \A i \in 1..Len(details) :
             NoAmount(details[i]) => Count(error, AmountRequired(i)) = 1

\* rows with the amounts 'Infinity', '' and '-5' were submitted and reported
C20_Witness ==
    /\ Len(details) = 3
    /\ details[1].amountStr = "Infinity"
    /\ details[2].amountStr = ""
    /\ details[3].amountStr = "-5"
    /\ \A i \in 1..3 : AmountRequired(i) \in Range(error)

\* ------------------------------------------------------------------------
\* Properties of the Reports page
\* ------------------------------------------------------------------------
\* the page rests: no effect due, no generation in flight, and a generation
\* has run for the accounts loaded
ReportsAtRest == effects = 0 /\ generations = <<>> /\ accounts # <<>>

ShowsGenerate ==
    LET result == Generate(accounts, filters, transactions)
    IN  reports = result.reports /\ summary = result.summary

\* C22 as stated: whenever no generation is in flight the reports and the
\* summary displayed are generate of the transactions fetched for the
\* current filters, and two generations never overlap.
C22_AlwaysRecomputed ==
    /\ Len(generations) <= 1
    /\ ReportsAtRest => ShowsGenerate

\* ------------------------------------------------------------------------
\* Properties of the transaction form, continued
\* ------------------------------------------------------------------------
HasSide(lines, side) == \E k \in 1..Len(lines) : lines[k].type = side

\* C23: every transaction that validateTransaction accepts, and that is
\* therefore sent to be created, has at least one debit line and at least one
\* credit line.
C23_BothSides ==
    \A k \in 1..Len(sent) :
        HasSide(sent[k].details, "credit") /\ HasSide(sent[k].details, "debit")

\* C24: the difference indicator of the form shows the rows as balanced
\* exactly when validateTransaction does not report the balance violation for
\* them.
C24_IndicatorAgrees ==
    open => (DifferenceColor(details) = "success.main" <=> ~Unbalanced(details))

C26_LatestOpenShown ==
    (open /\ inits = <<>> /\ pending = <<>>) =>
        /\ details = RowsOf(editTransaction)
        /\ date = editTransaction.date

\* C27: the answer to a create request that failed leaves the form as it
\* was: open or closed as before, the rows and the date unchanged, the error
\* set, the loading flag cleared, and nothing of onTransactionAdded or
\* onClose done (the page is not reloaded).  The answer to a create that
\* succeeded stores the transaction, starts the re-fetch of the list
\* (onTransactionAdded) and closes the form (onClose).
C27_FailureKeepsForm ==
    /\ [][(inflight # <<>> /\ Len(inflight') < Len(inflight) /\ stored' = stored) =>
             /\ UNCHANGED <<open, editTransaction, date, details, pending>>
             /\ error' = <<Message("Failed to save transaction", <<>>)>>
             /\ ~loading'
             /\ UNCHANGED <<transactionsPage, calls>>]_vars
    /\ [][stored' # stored =>
             /\ ~open'
             /\ editTransaction' = Null
             /\ transactionsPage'.loading
             /\ calls' = Append(calls, Call("transactionAPI.getAll", ""))
             /\ UNCHANGED <<date, details, error>>]_vars

\* a create failed, the form stayed open with its rows and was submitted
\* again; the second create succeeded, the form closed and the list is being
\* fetched again
C27_Witness ==
    /\ Len(sent) = 2
    /\ sent[1] = sent[2]
    /\ Len(stored) = 2
    /\ ~open
    /\ transactionsPage.loading
    /\ CallsOf("transactionAPI.getAll") = 1

\* C28: every busy flag that is set is cleared again once the request behind
\* it is answered, with success or with failure: the loading flag of the
\* form, loading and deleteLoading of the Transactions page, loading of the
\* Reports page.
C28_BusyFlagsCleared ==
    /\ loading ~> ~loading
    /\ transactionsPage.loading ~> ~transactionsPage.loading
    /\ transactionsPage.deleteLoading ~> ~transactionsPage.deleteLoading
    /\ reportsLoading ~> ~reportsLoading

\* a create succeeded and the list was fetched again, but the fetch failed:
\* every flag is clear again, the error of the page is shown
C28_Witness ==
    /\ Len(stored) = 2
    /\ ~loading
    /\ ~transactionsPage.loading
    /\ ~transactionsPage.deleteLoading
    /\ transactionsPage.error = "Failed to load transactions"
    /\ calls = <<>>

\* ------------------------------------------------------------------------
\* Properties of the delete dialog
\* ------------------------------------------------------------------------
DeleteSent == Cardinality(DeleteCalls(calls')) > Cardinality(DeleteCalls(calls))

DeleteAnswered == Cardinality(DeleteCalls(calls')) < Cardinality(DeleteCalls(calls))

\* C29: a delete request is sent only by the confirmation in the open dialog,
\* while no other delete is in flight, and for the transaction selected; the
\* selection is made when the dialog is opened and stays until a delete
\* succeeds; closing the dialog sends nothing.  Never two deletes in flight.
\* A delete that succeeded closes the dialog, clears the selection and starts
\* the re-fetch of the list; one that failed leaves the dialog and the
\* selection as they were and shows its error.
C29_ConfirmedDeleteOnly ==
    /\ [](Cardinality(DeleteCalls(calls)) <= 1)
    /\ [](DeleteCalls(calls) # {} => transactionsPage.deleteLoading)
    /\ [][DeleteSent =>
             /\ transactionsPage.deleteDialogOpen
             /\ transactionsPage'.deleteDialogOpen
             /\ ~transactionsPage.deleteLoading
             /\ transactionsPage.selectedTransaction # Null
             /\ calls' = Append(calls, Call("transactionAPI.delete",
                                            transactionsPage.selectedTransaction.id))]_vars
    /\ [][transactionsPage'.selectedTransaction # transactionsPage.selectedTransaction =>
             \/ ~transactionsPage.deleteDialogOpen /\ transactionsPage'.deleteDialogOpen
             \/ DeleteAnswered /\ stored' # stored]_vars
    /\ [][(transactionsPage.deleteDialogOpen /\ ~transactionsPage'.deleteDialogOpen
              /\ ~DeleteAnswered) =>
             /\ calls' = calls
             /\ stored' = stored]_vars
    /\ [][(DeleteAnswered /\ stored' # stored) =>
             /\ ~transactionsPage'.deleteDialogOpen
             /\ transactionsPage'.selectedTransaction = Null
             /\ ~transactionsPage'.deleteLoading
             /\ transactionsPage'.loading
             /\ CallsOf("transactionAPI.getAll")' = CallsOf("transactionAPI.getAll") + 1]_vars
    /\ [][(DeleteAnswered /\ stored' = stored) =>
             /\ transactionsPage'.deleteDialogOpen = transactionsPage.deleteDialogOpen
             /\ transactionsPage'.selectedTransaction = transactionsPage.selectedTransaction
             /\ transactionsPage'.error \in DeleteErrors
             /\ ~transactionsPage'.deleteLoading
             /\ CallsOf("transactionAPI.getAll")' = CallsOf("transactionAPI.getAll")]_vars

\* the delete of the second transaction listed was confirmed and failed: the
\* dialog is still open on it, the error is shown, nothing was removed
C29_Witness ==
    /\ transactionsPage.deleteDialogOpen
    /\ transactionsPage.selectedTransaction # Null
    /\ Len(transactionsPage.transactions) = 3
    /\ transactionsPage.selectedTransaction = transactionsPage.transactions[2]
    /\ transactionsPage.error \in DeleteErrors
    /\ ~transactionsPage.deleteLoading
    /\ DeleteCalls(calls) = {}
    /\ stored = StoredAtFirst

\* ------------------------------------------------------------------------
\* Conservation in the reports
\* ------------------------------------------------------------------------
\* the stored name of the line is the name of exactly one account
NamesOneAccount(detail) ==
    Cardinality({k \in 1..Len(accounts) : accounts[k].name = AccountNameOf(detail)}) = 1

\* every fetched transaction is exactly balanced and each of its lines names
\* exactly one account
Conserving ==
    \A t \in 1..Len(transactions) :
        /\ IsZero(ExactDifference(transactions[t].details))
        /\ \A d \in 1..Len(transactions[t].details) :
              NamesOneAccount(transactions[t].details[d])

RECURSIVE LinesIn(_, _)
LinesIn(list, n) == IF n = 0 THEN 0 ELSE LinesIn(list, n - 1) + Len(list[n].details)

RECURSIVE EntriesIn(_, _)
EntriesIn(list, n) == IF n = 0 THEN 0 ELSE EntriesIn(list, n - 1) + Len(list[n].transactions)

\* no line is counted in the reports of two accounts
CountedOnce ==
    \A q, r \in 1..Len(reports) :
        q # r => MatchedLines(reports[q].account) \cap MatchedLines(reports[r].account) = {}

\* C30: with no account filter, when every fetched transaction is exactly
\* balanced and every line names exactly one account, every line is counted
\* in exactly one report and the summary's credit and debit totals are equal,
\* its net amount zero.
C30_Conservation ==
    (Generated /\ filters = Filters("", FALSE) /\ Conserving) =>
        /\ CountedOnce
        /\ EntriesIn(reports, Len(reports)) = LinesIn(transactions, Len(transactions))
        /\ summary.totalCredit = summary.totalDebit
        /\ IsZero(summary.netAmount)

====
